---------------------------- MODULE Spec2Model ----------------------------
(***************************************************************************)
(* A model of sentry.models.file: the content-addressed blob store         *)
(* (FileBlob.from_file, FileBlob.from_files, FileBlob.delete, deletefile   *)
(* and getfile, and the per-checksum lock of _locked_blob), the chunked    *)
(* reader (ChunkedFileBlobIndexWrapper) in streaming and prefetch mode,    *)
(* and the File built from blobs (File.putfile,                            *)
(* File.assemble_from_file_blob_ids, File.save_to).                        *)
(***************************************************************************)
EXTENDS Integers, Sequences, FiniteSets, TLC

(***************************************************************************)
(* Bounds of the model.                                                    *)
(***************************************************************************)
\* Calls (from_file, from_files, delete) started in one behaviour.
MaxCalls == 2
\* Byte-sources in one from_files batch.
MaxBatch == 2

\* Index rows (blobs) of the file a reader is opened on.
MaxBlobs == 2
\* The largest n of a read(n) call.
MaxRead == 3

\* Bytes a streaming read asks of the open blob stream at a time: 32768 in
\* the code, scaled down to the model's blob sizes.
ReadChunk == 2
\* Bytes a prefetch worker reads at a time: 65535 in the code, scaled down.
FetchChunk == 2

\* Slots of the upload semaphore of from_files.
MULTI_BLOB_UPLOAD_CONCURRENCY == 8

\* The concurrent callers (threads or processes) of the blob store.
Callers == {"a", "b"}
\* The contents callers upload, as byte strings.
UploadData == {<<0>>, <<1, 2>>}
\* The owner scope handed to from_files: none, or one organization.
NoOrg == "noorg"
Orgs == {NoOrg, "org1"}

\* The contents of the blobs of the file a reader is opened on.
ReaderData == {<<0>>, <<1, 2, 1>>}

NoOne == "noone"
NoPath == 0
NoId == 0
NoRef == 0

(***************************************************************************)
(* _get_size_and_checksum: the size and the SHA-1 digest of a byte string. *)
(* The digest is modelled as a collision-free positional encoding of the   *)
(* bytes (bytes are 0..2), which starts from the digest of the empty       *)
(* string, as sha1() does.                                                 *)
(***************************************************************************)
RECURSIVE Sha1Update(_, _)
Sha1Update(h, bytes) ==
    IF bytes = <<>> THEN h
    ELSE Sha1Update(h * 4 + Head(bytes) + 1, Tail(bytes))

Sha1(bytes) == Sha1Update(1, bytes)

GetSizeAndChecksum(bytes) == [size |-> Len(bytes), checksum |-> Sha1(bytes)]

Checksums == {Sha1(d) : d \in UploadData}

VARIABLES
    \* the database
    rows,        \* sentry_fileblob: set of [id, checksum, size, path]
    owners,      \* sentry_fileblobowner: set of [blob, organization]
    nextId,      \* the primary-key sequence of sentry_fileblob
    \* the storage backend and the task queue
    store,       \* set of [path, bytes]: what storage.save has written
    nextPath,    \* generate_unique_path: the next unused path
    tasks,       \* delete_file_task.apply_async: set of [path, checksum, countdown]
    \* the lock service
    lock,        \* checksum -> the caller whose lease on the lock is live
    \* the callers
    call,        \* caller -> the frame of the call it is in (pc and locals)
    calls,       \* calls started so far
    \* history
    saves,       \* checksum -> completed storage.save calls
    expired,     \* checksum -> a lease on its lock has expired under its holder
    delCalled,   \* checksum -> FileBlob.delete was called on a blob of it
    returned,    \* checksum -> ids of the rows handed back by intake calls
    \* the file a reader is opened on
    fileBlobs,   \* the contents B1..Bn the file was put together from
    blobTab,     \* sentry_fileblob as the reader sees it: id -> bytes
    index,       \* sentry_fileblobindex of the file: set of [blob, offset]
    \* the readers
    rdr,         \* a ChunkedFileBlobIndexWrapper
    last,        \* the last call on rdr: op, argument, result, error
    cursor,      \* history: the logical position of rdr
    rdr2,        \* a second reader, in prefetch mode, on the same file
    last2,       \* the last call on rdr2
    workers,     \* the fetch workers of a prefetch in progress: entry -> [st, got]
    \* the File that putfile and assemble_from_file_blob_ids work on
    file,        \* its size and checksum: on the instance and in its row
    fcall,       \* the last putfile, assemble or save_to call on it and its outcome
    dir,         \* the directory save_to writes to: the entry at path, temp files
    put          \* the callers in a putfile call -> the locals of that call

blobVars == <<rows, owners, nextId, store, nextPath, tasks, lock, call, calls,
              saves, expired, delCalled, returned>>

readerVars == <<fileBlobs, blobTab, index, rdr, last, cursor, rdr2, last2, workers>>

fileVars == <<file, fcall, dir, put>>

vars == <<blobVars, readerVars, fileVars>>

(***************************************************************************)
(* The frame of a caller.                                                  *)
(***************************************************************************)
NoBlob == [id |-> NoId, checksum |-> 0, size |-> 0, path |-> NoPath]

IdleFrame ==
    [pc |-> "idle", op |-> "none", checksum |-> 0, size |-> 0, bytes |-> <<>>,
     blob |-> NoBlob, files |-> <<>>, org |-> NoOrg, seen |-> {},
     pending |-> <<>>, locks |-> {}, sem |-> MULTI_BLOB_UPLOAD_CONCURRENCY,
     created |-> <<>>, err |-> "none", ret |-> NoId,
     \* history: the batch from_files was called with, and the checksums of
     \* the storage.save calls this call has completed
     batch |-> <<>>, wrote |-> <<>>]

\* A byte-source of a batch: its bytes and the reference checksum (or none).
FileItems == {[bytes |-> d, ref |-> r] : d \in UploadData, r \in {NoRef} \cup Checksums}

\* Batches of byte-sources without reference checksums.
PlainBatches ==
    UNION {[1..n -> {f \in FileItems : f.ref = NoRef}] : n \in 1..MaxBatch}

Set(p, frame) == call' = [call EXCEPT ![p] = frame]

(***************************************************************************)
(* The lock service (sentry.app.locks): acquire takes a free lock, release *)
(* frees it only for the caller whose lease is still live, and a lease can *)
(* run out under a holder that is still working.                           *)
(***************************************************************************)
\* A lock service with a single key for every checksum (mutant of LockKey).
LockKeyShared(checksum) == CHOOSE c \in Checksums : TRUE

\* _locked_blob: lock = locks.get('fileblob:upload:{}'.format(checksum)), the
\* key of the lock a caller takes for a checksum.
LockKey(checksum) == checksum

LockFree(c) == lock[c] = NoOne

Acquire(p, c) == [lock EXCEPT ![c] = p]

Release(p, cs) == [c \in DOMAIN lock |-> IF c \in cs /\ lock[c] = p THEN NoOne ELSE lock[c]]

Expire(c) ==
    /\ lock[c] # NoOne
    /\ lock' = [lock EXCEPT ![c] = NoOne]
    /\ expired' = [expired EXCEPT ![c] = TRUE]
    /\ UNCHANGED <<rows, owners, nextId, store, nextPath, tasks, call, calls,
                   saves, delCalled, returned>>
    /\ UNCHANGED <<readerVars, fileVars>>

(***************************************************************************)
(* The database.                                                           *)
(***************************************************************************)
\* A lookup that misses the row (mutant of Existing).
ExistingMissed(c) == {r \in rows : r.checksum = c /\ r.path = NoPath}

\* _locked_blob: FileBlob.objects.get(checksum=checksum), the rows it can
\* return; none is FileBlob.DoesNotExist.
Existing(c) == {r \in rows : r.checksum = c}

\* A checksum column without the unique constraint (mutant of UniqueChecksum).
UniqueChecksumOff(c) == TRUE

\* The unique constraint on sentry_fileblob.checksum: an INSERT of a second
\* row with the checksum raises IntegrityError.
UniqueChecksum(c) == ~(\E r \in rows : r.checksum = c)

\* FileBlobOwner.objects.create inside transaction.atomic(), IntegrityError
\* swallowed: unique_together (blob, organization), foreign key to the blob.
EnsureBlobOwned(blobId, org) ==
    IF org = NoOrg \/ ~(\E r \in rows : r.id = blobId) THEN owners
    ELSE owners \cup {[blob |-> blobId, organization |-> org]}

(***************************************************************************)
(* FileBlob.from_file                                                      *)
(***************************************************************************)
Bounded == calls < MaxCalls

\* size, checksum = _get_size_and_checksum(fileobj)
FfCall(p, d) ==
    /\ call[p].pc = "idle"
    /\ Bounded
    /\ calls' = calls + 1
    /\ Set(p, [IdleFrame EXCEPT !.pc = "ff_lock", !.op = "from_file",
                                !.bytes = d,
                                !.size = GetSizeAndChecksum(d).size,
                                !.checksum = GetSizeAndChecksum(d).checksum])
    /\ UNCHANGED <<rows, owners, nextId, store, nextPath, tasks, lock,
                   saves, expired, delCalled, returned>>
    /\ UNCHANGED <<readerVars, fileVars>>

\* _locked_blob: TimedRetryPolicy(60)(lock.acquire) gets the lock
FfLock(p) ==
    /\ call[p].pc = "ff_lock"
    /\ LockFree(LockKey(call[p].checksum))
    /\ lock' = Acquire(p, LockKey(call[p].checksum))
    /\ Set(p, [call[p] EXCEPT !.pc = "ff_check"])
    /\ UNCHANGED <<rows, owners, nextId, store, nextPath, tasks, calls,
                   saves, expired, delCalled, returned>>
    /\ UNCHANGED <<readerVars, fileVars>>

\* _locked_blob: the retry policy gives up after 60 seconds and raises
FfLockTimeout(p) ==
    /\ call[p].pc = "ff_lock"
    /\ ~LockFree(LockKey(call[p].checksum))
    /\ Set(p, IdleFrame)
    /\ UNCHANGED <<rows, owners, nextId, store, nextPath, tasks, lock, calls,
                   saves, expired, delCalled, returned>>
    /\ UNCHANGED <<readerVars, fileVars>>

\* _locked_blob: existing = FileBlob.objects.get(checksum=checksum);
\* from_file: if existing is not None: return existing
FfCheck(p) ==
    /\ call[p].pc = "ff_check"
    /\ IF Existing(call[p].checksum) # {}
       THEN \E r \in Existing(call[p].checksum) :
                Set(p, [call[p] EXCEPT !.pc = "ff_exit", !.blob = r, !.ret = r.id])
       ELSE Set(p, [call[p] EXCEPT !.pc = "ff_upload"])
    /\ UNCHANGED <<rows, owners, nextId, store, nextPath, tasks, lock, calls,
                   saves, expired, delCalled, returned>>
    /\ UNCHANGED <<readerVars, fileVars>>

\* A from_file that takes a path and goes on to save the row without
\* having written the bytes (mutant of FfUpload).
FfUploadNoWrite(p) ==
    /\ call[p].pc = "ff_upload"
    /\ nextPath' = nextPath + 1
    /\ saves' = [saves EXCEPT ![call[p].checksum] = @ + 1]
    /\ Set(p, [call[p] EXCEPT !.pc = "ff_save",
                              !.wrote = Append(@, call[p].checksum),
                              !.blob = [id |-> NoId, checksum |-> call[p].checksum,
                                        size |-> call[p].size, path |-> nextPath]])
    /\ UNCHANGED <<rows, owners, nextId, store, tasks, lock, calls,
                   expired, delCalled, returned>>
    /\ UNCHANGED <<readerVars, fileVars>>

\* blob = cls(size, checksum); blob.path = generate_unique_path();
\* storage.save(blob.path, fileobj)
FfUpload(p) ==
    /\ call[p].pc = "ff_upload"
    /\ store' = store \cup {[path |-> nextPath, bytes |-> call[p].bytes]}
    /\ nextPath' = nextPath + 1
    /\ saves' = [saves EXCEPT ![call[p].checksum] = @ + 1]
    /\ Set(p, [call[p] EXCEPT !.pc = "ff_save",
                              !.wrote = Append(@, call[p].checksum),
                              !.blob = [id |-> NoId, checksum |-> call[p].checksum,
                                        size |-> call[p].size, path |-> nextPath]])
    /\ UNCHANGED <<rows, owners, nextId, tasks, lock, calls,
                   expired, delCalled, returned>>
    /\ UNCHANGED <<readerVars, fileVars>>

\* storage.save(blob.path, fileobj) raises
FfUploadFail(p) ==
    /\ call[p].pc = "ff_upload"
    /\ Set(p, [call[p] EXCEPT !.pc = "ff_exit", !.err = "StorageError"])
    /\ UNCHANGED <<rows, owners, nextId, store, nextPath, tasks, lock, calls,
                   saves, expired, delCalled, returned>>
    /\ UNCHANGED <<readerVars, fileVars>>

\* blob.save(): the INSERT, or IntegrityError on the unique checksum
FfSave(p) ==
    /\ call[p].pc = "ff_save"
    /\ IF UniqueChecksum(call[p].checksum)
       THEN /\ rows' = rows \cup {[call[p].blob EXCEPT !.id = nextId]}
            /\ nextId' = nextId + 1
            /\ Set(p, [call[p] EXCEPT !.pc = "ff_exit", !.blob.id = nextId,
                                      !.ret = nextId])
       ELSE /\ Set(p, [call[p] EXCEPT !.pc = "ff_exit", !.err = "IntegrityError"])
            /\ UNCHANGED <<rows, nextId>>
    /\ UNCHANGED <<owners, store, nextPath, tasks, lock, calls,
                   saves, expired, delCalled, returned>>
    /\ UNCHANGED <<readerVars, fileVars>>

\* leaving the with block (by return or by exception) releases the lock
FfExit(p) ==
    /\ call[p].pc = "ff_exit"
    /\ lock' = Release(p, {LockKey(call[p].checksum)})
    /\ returned' = IF call[p].err = "none"
                   THEN [returned EXCEPT ![call[p].checksum] = @ \cup {call[p].ret}]
                   ELSE returned
    /\ Set(p, IdleFrame)
    /\ UNCHANGED <<rows, owners, nextId, store, nextPath, tasks, calls,
                   saves, expired, delCalled>>
    /\ UNCHANGED <<readerVars, fileVars>>

(***************************************************************************)
(* FileBlob.delete and FileBlob.deletefile                                 *)
(***************************************************************************)
\* blob.delete() on a FileBlob instance loaded from an existing row
DelCall(p, b) ==
    /\ call[p].pc = "idle"
    /\ Bounded
    /\ b \in rows
    /\ calls' = calls + 1
    /\ delCalled' = [delCalled EXCEPT ![b.checksum] = TRUE]
    /\ Set(p, [IdleFrame EXCEPT !.pc = "del_lock", !.op = "delete",
                                !.checksum = b.checksum, !.size = b.size,
                                !.blob = b])
    /\ UNCHANGED <<rows, owners, nextId, store, nextPath, tasks, lock,
                   saves, expired, returned>>
    /\ UNCHANGED <<readerVars, fileVars>>

DelLock(p) ==
    /\ call[p].pc = "del_lock"
    /\ LockFree(LockKey(call[p].checksum))
    /\ lock' = Acquire(p, LockKey(call[p].checksum))
    /\ Set(p, [call[p] EXCEPT !.pc = "del_row"])
    /\ UNCHANGED <<rows, owners, nextId, store, nextPath, tasks, calls,
                   saves, expired, delCalled, returned>>
    /\ UNCHANGED <<readerVars, fileVars>>

DelLockTimeout(p) ==
    /\ call[p].pc = "del_lock"
    /\ ~LockFree(LockKey(call[p].checksum))
    /\ Set(p, IdleFrame)
    /\ UNCHANGED <<rows, owners, nextId, store, nextPath, tasks, lock, calls,
                   saves, expired, delCalled, returned>>
    /\ UNCHANGED <<readerVars, fileVars>>

\* super(FileBlob, self).delete(): the row with this id, and by cascade the
\* ownership rows and the index rows that reference it
DelRow(p) ==
    /\ call[p].pc = "del_row"
    /\ rows' = {r \in rows : r.id # call[p].blob.id}
    /\ owners' = {o \in owners : o.blob # call[p].blob.id}
    /\ index' = {x \in index : x.blob # call[p].blob.id}
    /\ Set(p, [call[p] EXCEPT !.pc = "del_exit"])
    /\ UNCHANGED <<nextId, store, nextPath, tasks, lock, calls,
                   saves, expired, delCalled, returned>>
    /\ UNCHANGED <<fileBlobs, blobTab, rdr, last, cursor, rdr2, last2, workers, fileVars>>

\* leaving the with block releases the lock
DelExit(p) ==
    /\ call[p].pc = "del_exit"
    /\ lock' = Release(p, {LockKey(call[p].checksum)})
    /\ Set(p, [call[p] EXCEPT !.pc = "del_file"])
    /\ UNCHANGED <<rows, owners, nextId, store, nextPath, tasks, calls,
                   saves, expired, delCalled, returned>>
    /\ UNCHANGED <<readerVars, fileVars>>

\* deletefile: countdown=60, the seconds the deferred task waits
DeleteCountdown == 60

\* deletefile: delete_file_task.apply_async(kwargs={'path': self.path,
\* 'checksum': self.checksum}, countdown=60)
DeleteTask(blob) ==
    [path |-> blob.path, checksum |-> blob.checksum, countdown |-> DeleteCountdown]

\* A delete that queues the deferred task whatever the path is (mutant of
\* DelFileKept).
DelFileAlways(p) ==
    /\ call[p].pc = "del_file"
    /\ tasks' = tasks \cup {DeleteTask(call[p].blob)}
    /\ Set(p, [IdleFrame EXCEPT !.blob = [call[p].blob EXCEPT !.path = NoPath]])
    /\ UNCHANGED <<rows, owners, nextId, store, nextPath, lock, calls,
                   saves, expired, delCalled, returned>>
    /\ UNCHANGED <<readerVars, fileVars>>

\* if self.path: self.deletefile(commit=False): the deferred task is queued
\* and the path of the instance cleared (self.path = None); the caller goes
\* on holding the instance
DelFileKept(p) ==
    /\ call[p].pc = "del_file"
    /\ tasks' = IF call[p].blob.path # NoPath
                THEN tasks \cup {DeleteTask(call[p].blob)}
                ELSE tasks
    /\ Set(p, [IdleFrame EXCEPT !.blob = [call[p].blob EXCEPT !.path = NoPath]])
    /\ UNCHANGED <<rows, owners, nextId, store, nextPath, lock, calls,
                   saves, expired, delCalled, returned>>
    /\ UNCHANGED <<readerVars, fileVars>>

\* if self.path: self.deletefile(commit=False): the deferred task is queued;
\* the caller lets go of the instance when delete returns
DelFile(p) ==
    /\ call[p].pc = "del_file"
    /\ tasks' = IF call[p].blob.path # NoPath
                THEN tasks \cup {DeleteTask(call[p].blob)}
                ELSE tasks
    /\ Set(p, IdleFrame)
    /\ UNCHANGED <<rows, owners, nextId, store, nextPath, lock, calls,
                   saves, expired, delCalled, returned>>
    /\ UNCHANGED <<readerVars, fileVars>>

\* blob.deletefile(commit) on an instance loaded from row b: assert
\* self.path; the deferred task is queued; self.path = None; with commit the
\* row is saved with the cleared path
DeleteFile(p, b, commit) ==
    /\ call[p].pc = "idle"
    /\ Bounded
    /\ b \in rows
    /\ calls' = calls + 1
    /\ IF b.path = NoPath
       THEN /\ Set(p, [IdleFrame EXCEPT !.blob = b, !.err = "AssertionError"])
            /\ UNCHANGED <<rows, tasks>>
       ELSE /\ tasks' = tasks \cup {DeleteTask(b)}
            /\ rows' = IF commit
                       THEN (rows \ {b}) \cup {[b EXCEPT !.path = NoPath]}
                       ELSE rows
            /\ Set(p, [IdleFrame EXCEPT !.blob = [b EXCEPT !.path = NoPath]])
    /\ UNCHANGED <<owners, nextId, store, nextPath, lock,
                   saves, expired, delCalled, returned>>
    /\ UNCHANGED <<readerVars, fileVars>>

\* The deferred task (sentry.tasks.files.delete_file) runs: the bytes at the
\* path are removed from storage; a path that is already gone is no error.
RunTask(t) ==
    /\ t \in tasks
    /\ store' = {f \in store : f.path # t.path}
    /\ tasks' = tasks \ {t}
    /\ UNCHANGED <<rows, owners, nextId, nextPath, lock, call, calls,
                   saves, expired, delCalled, returned>>
    /\ UNCHANGED <<readerVars, fileVars>>

(***************************************************************************)
(* FileBlob.getfile                                                        *)
(***************************************************************************)
\* A reader gets hold of a FileBlob instance: FileBlob.objects.get, or the
\* blob that comes with an index row a ChunkedFileBlobIndexWrapper loaded
\* (select_related('blob')).
GfLoad(p, b) ==
    /\ call[p].pc = "idle"
    /\ b \in rows
    /\ Set(p, [IdleFrame EXCEPT !.pc = "gf_held", !.op = "getfile",
                                !.checksum = b.checksum, !.blob = b])
    /\ UNCHANGED <<rows, owners, nextId, store, nextPath, tasks, lock, calls,
                   saves, expired, delCalled, returned>>
    /\ UNCHANGED <<readerVars, fileVars>>

\* blob.getfile(): assert self.path; storage.open(self.path), which fails
\* when there is nothing at the path
GfOpen(p) ==
    /\ call[p].pc = "gf_held"
    /\ LET path == call[p].blob.path
           found == {f \in store : f.path = path}
       IN  IF path = NoPath
           THEN Set(p, [call[p] EXCEPT !.pc = "gf_done", !.err = "AssertionError"])
           ELSE IF found = {}
           THEN Set(p, [call[p] EXCEPT !.pc = "gf_done", !.err = "NotFound"])
           ELSE \E f \in found :
                    Set(p, [call[p] EXCEPT !.pc = "gf_done", !.bytes = f.bytes])
    /\ UNCHANGED <<rows, owners, nextId, store, nextPath, tasks, lock, calls,
                   saves, expired, delCalled, returned>>
    /\ UNCHANGED <<readerVars, fileVars>>

\* the reader is done with the blob
GfDone(p) ==
    /\ call[p].pc = "gf_done"
    /\ Set(p, IdleFrame)
    /\ UNCHANGED <<rows, owners, nextId, store, nextPath, tasks, lock, calls,
                   saves, expired, delCalled, returned>>
    /\ UNCHANGED <<readerVars, fileVars>>

(***************************************************************************)
(* FileBlob.from_files                                                     *)
(***************************************************************************)
\* files_with_checksums, checksums_seen, blobs_created, blobs_to_save, locks
\* and the semaphore are set up
FsCall(p, files, org) ==
    /\ call[p].pc = "idle"
    /\ Bounded
    /\ calls' = calls + 1
    /\ Set(p, [IdleFrame EXCEPT !.pc = "fs_flush", !.op = "from_files",
                                !.files = files, !.org = org, !.batch = files])
    /\ UNCHANGED <<rows, owners, nextId, store, nextPath, tasks, lock,
                   saves, expired, delCalled, returned>>
    /\ UNCHANGED <<readerVars, fileVars>>

\* A loop that never compares an item with its reference checksum (mutant
\* of FsNext).
FsNextTrusting(p) ==
    /\ call[p].pc = "fs_flush"
    /\ call[p].pending = <<>>
    /\ IF call[p].files = <<>>
       THEN Set(p, [call[p] EXCEPT !.pc = "fs_finally"])
       ELSE LET item == Head(call[p].files)
                sc == GetSizeAndChecksum(item.bytes)
            IN  IF sc.checksum \in call[p].seen
                THEN Set(p, [call[p] EXCEPT !.files = Tail(@)])
                ELSE Set(p, [call[p] EXCEPT !.pc = "fs_lock",
                                            !.seen = @ \cup {sc.checksum},
                                            !.bytes = item.bytes,
                                            !.size = sc.size,
                                            !.checksum = sc.checksum])
    /\ UNCHANGED <<rows, owners, nextId, store, nextPath, tasks, lock, calls,
                   saves, expired, delCalled, returned>>
    /\ UNCHANGED <<readerVars, fileVars>>

\* A loop that goes on to the next item without flushing the blob that is
\* waiting in blobs_to_save with its lock held (mutant of FsNext).
FsNextNoFlush(p) ==
    /\ call[p].pc = "fs_flush"
    /\ call[p].files = <<>> => call[p].pending = <<>>
    /\ IF call[p].files = <<>>
       THEN Set(p, [call[p] EXCEPT !.pc = "fs_finally"])
       ELSE LET item == Head(call[p].files)
                sc == GetSizeAndChecksum(item.bytes)
            IN  IF item.ref # NoRef /\ sc.checksum # item.ref
                THEN Set(p, [call[p] EXCEPT !.pc = "fs_finally", !.err = "IOError"])
                ELSE IF sc.checksum \in call[p].seen
                THEN Set(p, [call[p] EXCEPT !.files = Tail(@)])
                ELSE Set(p, [call[p] EXCEPT !.pc = "fs_lock",
                                            !.seen = @ \cup {sc.checksum},
                                            !.bytes = item.bytes,
                                            !.size = sc.size,
                                            !.checksum = sc.checksum])
    /\ UNCHANGED <<rows, owners, nextId, store, nextPath, tasks, lock, calls,
                   saves, expired, delCalled, returned>>
    /\ UNCHANGED <<readerVars, fileVars>>

\* _flush_blobs finds blobs_to_save empty: after the loop the call ends; in
\* the loop the next item is hashed, compared with its reference checksum
\* and skipped when its checksum was seen in this batch
FsNext(p) ==
    /\ call[p].pc = "fs_flush"
    /\ call[p].pending = <<>>
    /\ IF call[p].files = <<>>
       THEN Set(p, [call[p] EXCEPT !.pc = "fs_finally"])
       ELSE LET item == Head(call[p].files)
                sc == GetSizeAndChecksum(item.bytes)
            IN  IF item.ref # NoRef /\ sc.checksum # item.ref
                THEN Set(p, [call[p] EXCEPT !.pc = "fs_finally", !.err = "IOError"])
                ELSE IF sc.checksum \in call[p].seen
                THEN Set(p, [call[p] EXCEPT !.files = Tail(@)])
                ELSE Set(p, [call[p] EXCEPT !.pc = "fs_lock",
                                            !.seen = @ \cup {sc.checksum},
                                            !.bytes = item.bytes,
                                            !.size = sc.size,
                                            !.checksum = sc.checksum])
    /\ UNCHANGED <<rows, owners, nextId, store, nextPath, tasks, lock, calls,
                   saves, expired, delCalled, returned>>
    /\ UNCHANGED <<readerVars, fileVars>>

\* _flush_blobs: blob, lock = blobs_to_save.pop(); _save_blob: blob.save()
FlSave(p) ==
    /\ call[p].pc = "fs_flush"
    /\ call[p].pending # <<>>
    /\ LET n == Len(call[p].pending)
           blob == call[p].pending[n]
           rest == SubSeq(call[p].pending, 1, n - 1)
       IN  IF UniqueChecksum(blob.checksum)
           THEN /\ rows' = rows \cup {[blob EXCEPT !.id = nextId]}
                /\ nextId' = nextId + 1
                /\ returned' = [returned EXCEPT ![blob.checksum] = @ \cup {nextId}]
                /\ Set(p, [call[p] EXCEPT !.pc = "fl_own", !.pending = rest,
                                          !.blob = [blob EXCEPT !.id = nextId]])
           ELSE /\ Set(p, [call[p] EXCEPT !.pc = "fs_finally", !.pending = rest,
                                          !.blob = blob, !.err = "IntegrityError"])
                /\ UNCHANGED <<rows, nextId, returned>>
    /\ UNCHANGED <<owners, store, nextPath, tasks, lock, calls,
                   saves, expired, delCalled>>
    /\ UNCHANGED <<readerVars, fileVars>>

\* _save_blob: _ensure_blob_owned(blob)
FlOwn(p) ==
    /\ call[p].pc = "fl_own"
    /\ owners' = EnsureBlobOwned(call[p].blob.id, call[p].org)
    /\ Set(p, [call[p] EXCEPT !.pc = "fl_exit"])
    /\ UNCHANGED <<rows, nextId, store, nextPath, tasks, lock, calls,
                   saves, expired, delCalled, returned>>
    /\ UNCHANGED <<readerVars, fileVars>>

\* A flush that never gives the slot back (mutant of FlExit).
FlExitKeepsSlot(p) ==
    /\ call[p].pc = "fl_exit"
    /\ lock' = Release(p, {LockKey(call[p].blob.checksum)})
    /\ Set(p, [call[p] EXCEPT !.pc = "fs_flush",
                              !.locks = @ \ {call[p].blob.checksum}])
    /\ UNCHANGED <<rows, owners, nextId, store, nextPath, tasks, calls,
                   saves, expired, delCalled, returned>>
    /\ UNCHANGED <<readerVars, fileVars>>

\* _flush_blobs: lock.__exit__(); locks.discard(lock); semaphore.release()
FlExit(p) ==
    /\ call[p].pc = "fl_exit"
    /\ lock' = Release(p, {LockKey(call[p].blob.checksum)})
    /\ Set(p, [call[p] EXCEPT !.pc = "fs_flush",
                              !.locks = @ \ {call[p].blob.checksum},
                              !.sem = @ + 1])
    /\ UNCHANGED <<rows, owners, nextId, store, nextPath, tasks, calls,
                   saves, expired, delCalled, returned>>
    /\ UNCHANGED <<readerVars, fileVars>>

\* lock = _locked_blob(checksum); lock.__enter__() gets the lock
FsLock(p) ==
    /\ call[p].pc = "fs_lock"
    /\ LockFree(LockKey(call[p].checksum))
    /\ lock' = Acquire(p, LockKey(call[p].checksum))
    /\ Set(p, [call[p] EXCEPT !.pc = "fs_check"])
    /\ UNCHANGED <<rows, owners, nextId, store, nextPath, tasks, calls,
                   saves, expired, delCalled, returned>>
    /\ UNCHANGED <<readerVars, fileVars>>

\* lock.__enter__(): the retry policy gives up after 60 seconds and raises
FsLockTimeout(p) ==
    /\ call[p].pc = "fs_lock"
    /\ ~LockFree(LockKey(call[p].checksum))
    /\ Set(p, [call[p] EXCEPT !.pc = "fs_finally", !.err = "LockTimeout"])
    /\ UNCHANGED <<rows, owners, nextId, store, nextPath, tasks, lock, calls,
                   saves, expired, delCalled, returned>>
    /\ UNCHANGED <<readerVars, fileVars>>

\* An existence check that never finds the row (mutant of FsCheck).
FsCheckBlind(p) ==
    /\ call[p].pc = "fs_check"
    /\ Set(p, [call[p] EXCEPT !.pc = "fs_upload",
                              !.locks = @ \cup {call[p].checksum}])
    /\ UNCHANGED <<rows, owners, nextId, store, nextPath, tasks, lock, calls,
                   saves, expired, delCalled, returned>>
    /\ UNCHANGED <<readerVars, fileVars>>

\* lock.__enter__(): existing = FileBlob.objects.get(checksum=checksum);
\* when there is none: locks.add(lock)
FsCheck(p) ==
    /\ call[p].pc = "fs_check"
    /\ IF Existing(call[p].checksum) # {}
       THEN \E r \in Existing(call[p].checksum) :
                Set(p, [call[p] EXCEPT !.pc = "fs_hit", !.blob = r])
       ELSE Set(p, [call[p] EXCEPT !.pc = "fs_upload",
                                   !.locks = @ \cup {call[p].checksum}])
    /\ UNCHANGED <<rows, owners, nextId, store, nextPath, tasks, lock, calls,
                   saves, expired, delCalled, returned>>
    /\ UNCHANGED <<readerVars, fileVars>>

\* existing is not None: lock.__exit__(); blobs_created.append(existing)
FsHit(p) ==
    /\ call[p].pc = "fs_hit"
    /\ lock' = Release(p, {LockKey(call[p].checksum)})
    /\ returned' = [returned EXCEPT ![call[p].checksum] = @ \cup {call[p].blob.id}]
    /\ Set(p, [call[p] EXCEPT !.pc = "fs_hit_own",
                              !.created = Append(@, call[p].blob.id)])
    /\ UNCHANGED <<rows, owners, nextId, store, nextPath, tasks, calls,
                   saves, expired, delCalled>>
    /\ UNCHANGED <<readerVars, fileVars>>

\* A hit path that leaves the existing blob without an ownership row (mutant
\* of FsHitOwn).
FsHitUnowned(p) ==
    /\ call[p].pc = "fs_hit_own"
    /\ Set(p, [call[p] EXCEPT !.pc = "fs_flush", !.files = Tail(@)])
    /\ UNCHANGED <<rows, owners, nextId, store, nextPath, tasks, lock, calls,
                   saves, expired, delCalled, returned>>
    /\ UNCHANGED <<readerVars, fileVars>>

\* existing is not None: _ensure_blob_owned(existing); continue
FsHitOwn(p) ==
    /\ call[p].pc = "fs_hit_own"
    /\ owners' = EnsureBlobOwned(call[p].blob.id, call[p].org)
    /\ Set(p, [call[p] EXCEPT !.pc = "fs_flush", !.files = Tail(@)])
    /\ UNCHANGED <<rows, nextId, store, nextPath, tasks, lock, calls,
                   saves, expired, delCalled, returned>>
    /\ UNCHANGED <<readerVars, fileVars>>

\* An upload that lets go of the lock as soon as the bytes are written
\* (mutant of FsUpload).
FsUploadReleases(p) ==
    /\ call[p].pc = "fs_upload"
    /\ call[p].sem > 0
    /\ store' = store \cup {[path |-> nextPath, bytes |-> call[p].bytes]}
    /\ nextPath' = nextPath + 1
    /\ saves' = [saves EXCEPT ![call[p].checksum] = @ + 1]
    /\ lock' = Release(p, {LockKey(call[p].checksum)})
    /\ Set(p, [call[p] EXCEPT !.pc = "fs_flush", !.files = Tail(@),
                              !.sem = @ - 1,
                              !.locks = @ \ {call[p].checksum},
                              !.wrote = Append(@, call[p].checksum),
                              !.pending = Append(@, [id |-> NoId,
                                                     checksum |-> call[p].checksum,
                                                     size |-> call[p].size,
                                                     path |-> nextPath])])
    /\ UNCHANGED <<rows, owners, nextId, tasks, calls,
                   expired, delCalled, returned>>
    /\ UNCHANGED <<readerVars, fileVars>>

\* An upload that takes no slot of the semaphore (mutant of FsUpload).
FsUploadNoSlot(p) ==
    /\ call[p].pc = "fs_upload"
    /\ store' = store \cup {[path |-> nextPath, bytes |-> call[p].bytes]}
    /\ nextPath' = nextPath + 1
    /\ saves' = [saves EXCEPT ![call[p].checksum] = @ + 1]
    /\ Set(p, [call[p] EXCEPT !.pc = "fs_flush", !.files = Tail(@),
                              !.wrote = Append(@, call[p].checksum),
                              !.pending = Append(@, [id |-> NoId,
                                                     checksum |-> call[p].checksum,
                                                     size |-> call[p].size,
                                                     path |-> nextPath])])
    /\ UNCHANGED <<rows, owners, nextId, tasks, lock, calls,
                   expired, delCalled, returned>>
    /\ UNCHANGED <<readerVars, fileVars>>

\* semaphore.acquire(); exe.submit(_upload_and_pend_chunk(fileobj, size,
\* checksum, lock)): the argument is evaluated by the calling thread, so the
\* storage.save and blobs_to_save.append happen before submit is entered
FsUpload(p) ==
    /\ call[p].pc = "fs_upload"
    /\ call[p].sem > 0
    /\ store' = store \cup {[path |-> nextPath, bytes |-> call[p].bytes]}
    /\ nextPath' = nextPath + 1
    /\ saves' = [saves EXCEPT ![call[p].checksum] = @ + 1]
    /\ Set(p, [call[p] EXCEPT !.pc = "fs_flush", !.files = Tail(@),
                              !.sem = @ - 1,
                              !.wrote = Append(@, call[p].checksum),
                              !.pending = Append(@, [id |-> NoId,
                                                     checksum |-> call[p].checksum,
                                                     size |-> call[p].size,
                                                     path |-> nextPath])])
    /\ UNCHANGED <<rows, owners, nextId, tasks, lock, calls,
                   expired, delCalled, returned>>
    /\ UNCHANGED <<readerVars, fileVars>>

\* semaphore.acquire(); _upload_and_pend_chunk: storage.save raises, and the
\* exception leaves the loop for the finally block
FsUploadFail(p) ==
    /\ call[p].pc = "fs_upload"
    /\ call[p].sem > 0
    /\ Set(p, [call[p] EXCEPT !.pc = "fs_finally", !.sem = @ - 1,
                              !.err = "StorageError"])
    /\ UNCHANGED <<rows, owners, nextId, store, nextPath, tasks, lock, calls,
                   saves, expired, delCalled, returned>>
    /\ UNCHANGED <<readerVars, fileVars>>

\* A finally block that releases nothing (mutant of FsFinally).
FsFinallyKeeps(p) ==
    /\ call[p].pc = "fs_finally"
    /\ Set(p, IdleFrame)
    /\ UNCHANGED <<rows, owners, nextId, store, nextPath, tasks, lock, calls,
                   saves, expired, delCalled, returned>>
    /\ UNCHANGED <<readerVars, fileVars>>

\* What from_files hands back when it does not raise: the function has no
\* return statement, so the caller gets None and no list of blob references
\* (blobs_created is a local that is dropped).
FromFilesReturn(frame) == [none |-> TRUE, refs |-> <<>>]

\* finally: for lock in locks: lock.__exit__(); the call returns or raises
FsFinally(p) ==
    /\ call[p].pc = "fs_finally"
    /\ lock' = Release(p, {LockKey(c) : c \in call[p].locks})
    /\ Set(p, IdleFrame)
    /\ UNCHANGED <<rows, owners, nextId, store, nextPath, tasks, calls,
                   saves, expired, delCalled, returned>>
    /\ UNCHANGED <<readerVars, fileVars>>

(***************************************************************************)
(* The file a reader is opened on, and File._get_chunked_blob.              *)
(***************************************************************************)
Max(S) == CHOOSE x \in S : \A y \in S : y <= x

Min(a, b) == IF a <= b THEN a ELSE b

RECURSIVE Concat(_)
Concat(seqs) == IF seqs = <<>> THEN <<>> ELSE Head(seqs) \o Concat(Tail(seqs))

RECURSIVE SumSizes(_)
SumSizes(seqs) == IF seqs = <<>> THEN 0 ELSE Len(Head(seqs)) + SumSizes(Tail(seqs))

\* The files: B1..Bn, every blob non-empty (putfile stores no empty blob).
Files == UNION {[1..n -> ReaderData] : n \in 0..MaxBlobs}

\* The orders in which the distinct contents of a file can have been
\* uploaded: the blob ids they got.
UploadOrders(f) ==
    LET distinct == {f[i] : i \in 1..Len(f)}
    IN  {ids \in [distinct -> 1..Cardinality(distinct)] :
            \A d1, d2 \in distinct : d1 # d2 => ids[d1] # ids[d2]}

\* The index rows of a file put together from B1..Bn: row i references the
\* blob of Bi at the sum of the sizes of B1..B(i-1).
IndexRows(f, ids) ==
    {[blob |-> ids[f[i]], offset |-> SumSizes(SubSeq(f, 1, i - 1))] : i \in 1..Len(f)}

\* The rows in the order of their blobs' ids, the order of upload (mutant of
\* OrderByOffset).
RECURSIVE OrderByBlob(_)
OrderByBlob(S) ==
    IF S = {} THEN <<>>
    ELSE LET m == CHOOSE x \in S : \A y \in S :
                      x.blob < y.blob \/ (x.blob = y.blob /\ x.offset <= y.offset)
         IN  <<[blob |-> m.blob, offset |-> m.offset, size |-> Len(blobTab[m.blob])]>>
                 \o OrderByBlob(S \ {m})

\* FileBlobIndex.objects.filter(file=self).select_related('blob')
\* .order_by('offset'), loaded into a list
RECURSIVE OrderByOffset(_)
OrderByOffset(S) ==
    IF S = {} THEN <<>>
    ELSE LET m == CHOOSE x \in S : \A y \in S : x.offset <= y.offset
         IN  <<[blob |-> m.blob, offset |-> m.offset, size |-> Len(blobTab[m.blob])]>>
                 \o OrderByOffset(S \ {m})

GetChunkedBlob == OrderByOffset(index)

(***************************************************************************)
(* ChunkedFileBlobIndexWrapper                                             *)
(***************************************************************************)
NoFile == [kind |-> "none", blob |-> NoId, pos |-> 0]

\* A reader before its constructor has run.  state is "new", "ok" (the
\* constructor returned) or "failed" (it raised); streams counts the blob
\* streams the reader has open; opened and closes count the streams the
\* call in progress has opened and closed; tmpOpen says that the temp file
\* of a prefetch is an open file.
NewReader ==
    [state |-> "new", indexes |-> <<>>, prefetched |-> FALSE, closed |-> FALSE,
     curidx |-> 0, curfile |-> NoFile, idxiter |-> 0, tmp |-> <<>>,
     fetchFailed |-> {}, streams |-> 0, opened |-> 0, closes |-> 0,
     tmpOpen |-> FALSE]

\* No prefetch is in progress: the pool has no workers.
NoWorkers == <<>>

\* A call on a reader: the operation, its argument, the bytes or the number
\* it returned, the error it raised; prevSeek is the position of the seek
\* that succeeded right before it, or -1.
NoCall == [op |-> "none", arg |-> 0, res |-> <<>>, val |-> 0, err |-> "none",
           prevSeek |-> -1]

Result(r, res, val, err) == [r |-> r, res |-> res, val |-> val, err |-> err]

Raise(r, err) == Result(r, <<>>, 0, err)

\* size: sum(i.blob.size for i in self._indexes)
RECURSIVE SizeFrom(_, _)
SizeFrom(indexes, i) ==
    IF i > Len(indexes) THEN 0 ELSE indexes[i].size + SizeFrom(indexes, i + 1)

Size(r) == SizeFrom(r.indexes, 1)

\* A _nextidx that leaves the stream it moves away from open (mutant of
\* NextIdx).
NextIdxLeaks(r) ==
    IF r.idxiter <= Len(r.indexes)
    THEN [r EXCEPT !.curidx = r.idxiter,
                   !.idxiter = @ + 1,
                   !.curfile = [kind |-> "blob", blob |-> r.indexes[r.idxiter].blob,
                                pos |-> 0],
                   !.opened = @ + 1,
                   !.streams = @ + 1]
    ELSE [r EXCEPT !.curidx = 0,
                   !.curfile = NoFile]

\* _nextidx: the next index entry's blob is opened, or the iterator is
\* exhausted; the stream that was open is closed
NextIdx(r) ==
    LET wasOpen == IF r.curfile.kind = "blob" THEN 1 ELSE 0
    IN  IF r.idxiter <= Len(r.indexes)
        THEN [r EXCEPT !.curidx = r.idxiter,
                       !.idxiter = @ + 1,
                       !.curfile = [kind |-> "blob", blob |-> r.indexes[r.idxiter].blob,
                                    pos |-> 0],
                       !.opened = @ + 1,
                       !.closes = @ + wasOpen,
                       !.streams = @ + 1 - wasOpen]
        ELSE [r EXCEPT !.curidx = 0,
                       !.curfile = NoFile,
                       !.closes = @ + wasOpen,
                       !.streams = @ - wasOpen]

\* seek on the temp file of a prefetched reader
TempSeek(r, pos) ==
    IF r.curfile.kind # "temp" THEN Raise(r, "AttributeError")
    ELSE IF pos < 0 THEN Raise(r, "IOError")
    ELSE Result([r EXCEPT !.curfile.pos = pos], <<>>, 0, "none")

\* A seek that picks the first index entry at or before pos instead of the
\* last one (mutant of Seek).
SeekFirstMatch(r, pos) ==
    IF r.closed THEN Raise(r, "ValueError")
    ELSE IF r.prefetched THEN TempSeek(r, pos)
    ELSE IF pos < 0 THEN Raise(r, "IOError")
    ELSE LET found == {j \in 1..Len(r.indexes) : r.indexes[j].offset <= pos}
         IN  IF found = {} THEN Raise(r, "ValueError")
             ELSE LET j == CHOOSE x \in found : \A y \in found : x <= y
                      r1 == IF j # r.curidx THEN NextIdx([r EXCEPT !.idxiter = j]) ELSE r
                  IN  Result([r1 EXCEPT !.curfile.pos = pos - r1.indexes[r1.curidx].offset],
                             <<>>, 0, "none")

\* A seek that lets go of the open stream before it looks at pos (mutant of
\* Seek).
SeekClosesFirst(r, pos) ==
    IF r.closed THEN Raise(r, "ValueError")
    ELSE IF r.prefetched THEN TempSeek(r, pos)
    ELSE LET r0 == NextIdx([r EXCEPT !.idxiter = Len(r.indexes) + 1])
             found == {j \in 1..Len(r.indexes) : r.indexes[j].offset <= pos}
         IN  IF pos < 0 THEN Raise(r0, "IOError")
             ELSE IF found = {} THEN Raise(r0, "ValueError")
             ELSE LET j == Max(found)
                      r1 == NextIdx([r0 EXCEPT !.idxiter = j])
                  IN  Result([r1 EXCEPT !.curfile.pos = pos - r1.indexes[r1.curidx].offset],
                             <<>>, 0, "none")

\* seek(pos)
Seek(r, pos) ==
    IF r.closed THEN Raise(r, "ValueError")
    ELSE IF r.prefetched THEN TempSeek(r, pos)
    ELSE IF pos < 0 THEN Raise(r, "IOError")
    ELSE LET found == {j \in 1..Len(r.indexes) : r.indexes[j].offset <= pos}
         IN  IF found = {} THEN Raise(r, "ValueError")
             ELSE LET j == Max(found)
                      n == Len(r.indexes) - j
                      r1 == IF j # r.curidx
                            THEN NextIdx([r EXCEPT !.idxiter = Len(r.indexes) - (n + 1) + 1])
                            ELSE r
                  IN  Result([r1 EXCEPT !.curfile.pos = pos - r1.indexes[r1.curidx].offset],
                             <<>>, 0, "none")

\* open: self.closed = False; self.seek(0)
Open(r) == Seek([r EXCEPT !.closed = FALSE], 0)

\* tell()
Tell(r) ==
    IF r.closed THEN Raise(r, "ValueError")
    ELSE IF r.prefetched
    THEN IF r.curfile.kind # "temp" THEN Raise(r, "AttributeError")
         ELSE Result(r, <<>>, r.curfile.pos, "none")
    ELSE IF r.curfile = NoFile THEN Result(r, <<>>, Size(r), "none")
    ELSE Result(r, <<>>, r.indexes[r.curidx].offset + r.curfile.pos, "none")

\* The bytes a read(k) of a stream over bytes returns at position pos.
StreamRead(bytes, pos, k) == SubSeq(bytes, pos + 1, Min(pos + k, Len(bytes)))

\* read(): while self._curfile is not None: read 32768 bytes of the open
\* stream, or move to the next index entry when it is drained
RECURSIVE ReadToEnd(_, _)
ReadToEnd(r, result) ==
    IF r.curfile = NoFile THEN Result(r, result, 0, "none")
    ELSE LET blob_result == StreamRead(blobTab[r.curfile.blob], r.curfile.pos, ReadChunk)
         IN  IF blob_result = <<>>
             THEN ReadToEnd(NextIdx(r), result)
             ELSE ReadToEnd([r EXCEPT !.curfile.pos = @ + Len(blob_result)],
                            result \o blob_result)

\* A read(n) that stops at the end of the blob it is in (mutant of ReadUpTo).
RECURSIVE ReadUpToOneBlob(_, _, _)
ReadUpToOneBlob(r, n, result) ==
    IF ~(n > 0 /\ r.curfile # NoFile) THEN Result(r, result, 0, "none")
    ELSE LET blob_result == StreamRead(blobTab[r.curfile.blob], r.curfile.pos,
                                       Min(n, ReadChunk))
         IN  IF blob_result = <<>>
             THEN Result(NextIdx(r), result, 0, "none")
             ELSE ReadUpToOneBlob([r EXCEPT !.curfile.pos = @ + Len(blob_result)],
                                  n - Len(blob_result), result \o blob_result)

\* read(n): while n > 0 and self._curfile is not None
RECURSIVE ReadUpTo(_, _, _)
ReadUpTo(r, n, result) ==
    IF ~(n > 0 /\ r.curfile # NoFile) THEN Result(r, result, 0, "none")
    ELSE LET blob_result == StreamRead(blobTab[r.curfile.blob], r.curfile.pos,
                                       Min(n, ReadChunk))
         IN  IF blob_result = <<>>
             THEN ReadUpTo(NextIdx(r), n, result)
             ELSE ReadUpTo([r EXCEPT !.curfile.pos = @ + Len(blob_result)],
                           n - Len(blob_result), result \o blob_result)

\* read on the temp file of a prefetched reader
TempRead(r, n) ==
    IF r.curfile.kind # "temp" THEN Raise(r, "AttributeError")
    ELSE LET got == IF n < 0 THEN StreamRead(r.tmp, r.curfile.pos, Len(r.tmp))
                    ELSE StreamRead(r.tmp, r.curfile.pos, n)
         IN  Result([r EXCEPT !.curfile.pos = @ + Len(got)], got, 0, "none")

\* read(n=-1)
Read(r, n) ==
    IF r.closed THEN Raise(r, "ValueError")
    ELSE IF r.prefetched THEN TempRead(r, n)
    ELSE IF n < 0 THEN ReadToEnd(r, <<>>)
    ELSE ReadUpTo(r, n, <<>>)

\* A close that lets go of the stream and does not mark the reader closed
\* (mutant of Close).
CloseUnmarked(r) ==
    LET wasOpen == IF r.curfile.kind = "blob" THEN 1 ELSE 0
    IN  Result([r EXCEPT !.curfile = NoFile, !.curidx = 0,
                         !.closes = @ + wasOpen, !.streams = @ - wasOpen,
                         !.tmpOpen = @ /\ r.curfile.kind # "temp"],
               <<>>, 0, "none")

\* close()
Close(r) ==
    LET wasOpen == IF r.curfile.kind = "blob" THEN 1 ELSE 0
    IN  Result([r EXCEPT !.curfile = NoFile, !.curidx = 0, !.closed = TRUE,
                         !.closes = @ + wasOpen, !.streams = @ - wasOpen,
                         !.tmpOpen = @ /\ r.curfile.kind # "temp"],
               <<>>, 0, "none")

\* A detach_tempfile that closes the reader while it still holds the file
\* (mutant of TakeFile).
TakeFileClosing(r) ==
    LET rv == r.curfile
        r1 == Close(r).r
    IN  IF rv = NoFile THEN Raise(r1, "AttributeError")
        ELSE Result(r1, IF rv.kind = "temp" THEN r.tmp ELSE <<>>, 0, "none")

\* detach_tempfile after its check: rv = self._curfile; self._curfile =
\* None; self.close(); rv.seek(0); return rv.  The file that is handed over
\* is not closed; with no file to hand over, rv.seek raises after the
\* reader was closed.
TakeFile(r) ==
    LET rv == r.curfile
        r1 == Close([r EXCEPT !.curfile = NoFile]).r
    IN  IF rv = NoFile THEN Raise(r1, "AttributeError")
        ELSE Result(r1, IF rv.kind = "temp" THEN r.tmp ELSE <<>>, 0, "none")

\* A detach_tempfile that does not look at the mode (mutant of Detach).
DetachUnchecked(r) == TakeFile(r)

\* detach_tempfile()
Detach(r) ==
    IF ~r.prefetched THEN Raise(r, "TypeError")
    ELSE TakeFile(r)

\* The outcomes of one prefetch worker (fetch_file) on a blob of the given
\* size: all its bytes written, or an exception (getfile, storage.open or
\* read raising) after a whole number of chunks.
FetchOutcomes(size) == {size} \cup {k \in 0..(size - 1) : k % FetchChunk = 0}

\* A prefetch whose workers all write at offset 0 (mutant of Prefetch).
PrefetchAtZero(r, got) ==
    LET size == SizeFrom(r.indexes, 1)
        written(k) == {i \in 1..Len(r.indexes) : k <= got[i]}
        byte(k) == IF written(k) = {} THEN 0
                   ELSE blobTab[r.indexes[Max(written(k))].blob][k]
    IN  [r EXCEPT !.tmp = [k \in 1..size |-> byte(k)],
                  !.curfile = [kind |-> "temp", blob |-> NoId, pos |-> size],
                  !.tmpOpen = TRUE,
                  !.fetchFailed = {i \in 1..Len(r.indexes) : got[i] < r.indexes[i].size}]

\* _prefetch: the temp file is extended to size with zero bytes and every
\* worker writes what it fetched at its entry's offset; the executor is
\* joined and the futures are dropped, so a worker's exception is not raised
Prefetch(r, got) ==
    LET size == Size(r)
        written(k) == {i \in 1..Len(r.indexes) :
                           r.indexes[i].offset < k /\ k <= r.indexes[i].offset + got[i]}
        byte(k) == IF written(k) = {} THEN 0
                   ELSE LET i == Max(written(k))
                        IN  blobTab[r.indexes[i].blob][k - r.indexes[i].offset]
    IN  [r EXCEPT !.tmp = [k \in 1..size |-> byte(k)],
                  !.curfile = [kind |-> "temp", blob |-> NoId, pos |-> size],
                  !.tmpOpen = TRUE,
                  !.fetchFailed = {i \in 1..Len(r.indexes) : got[i] < r.indexes[i].size}]

\* __init__(indexes, prefetch=...)
Construct(indexes, prefetch, got) ==
    LET r0 == [NewReader EXCEPT !.indexes = indexes, !.prefetched = prefetch]
        r1 == IF prefetch THEN Prefetch(r0, got) ELSE r0
        out == Open(r1)
    IN  Result([out.r EXCEPT !.state = IF out.err = "none" THEN "ok" ELSE "failed"],
               <<>>, 0, out.err)

\* The outcomes of the prefetch workers, one per index entry.
FetchChoices(indexes) ==
    {got \in [1..Len(indexes) -> 0..Max({0} \cup {indexes[i].size : i \in 1..Len(indexes)})] :
        \A i \in 1..Len(indexes) : got[i] \in FetchOutcomes(indexes[i].size)}

NoFetch(indexes) == [i \in 1..Len(indexes) |-> indexes[i].size]

\* A call starts: the effects counted for the last call are reset.
Begin(r) == [r EXCEPT !.opened = 0, !.closes = 0]

\* The logical position after a call: 0 after open, pos after seek(pos),
\* advanced by the bytes a read returned.
CursorAfter(op, arg, out) ==
    IF out.err # "none" THEN cursor
    ELSE IF op = "seek" THEN arg
    ELSE IF op = "read" THEN cursor + Len(out.res)
    ELSE IF op = "open" THEN 0
    ELSE cursor

Called(before, op, arg, out) ==
    [op |-> op, arg |-> arg, res |-> out.res, val |-> out.val, err |-> out.err,
     prevSeek |-> IF before.op = "seek" /\ before.err = "none" THEN before.arg ELSE -1]

ReaderFrame == UNCHANGED <<blobVars, fileBlobs, blobTab, index, rdr2, last2, workers, fileVars>>

\* file._get_chunked_blob(prefetch=...): a reader is constructed
RConstruct(prefetch) ==
    /\ rdr.state = "new"
    /\ \E got \in (IF prefetch THEN FetchChoices(GetChunkedBlob) ELSE {NoFetch(GetChunkedBlob)}) :
          LET out == Construct(GetChunkedBlob, prefetch, got)
          IN  /\ rdr' = out.r
              /\ last' = Called(last, "open", 0, out)
              /\ cursor' = CursorAfter("open", 0, out)
    /\ ReaderFrame

RSeek(pos) ==
    /\ rdr.state = "ok"
    /\ LET out == Seek(Begin(rdr), pos)
       IN  /\ rdr' = out.r
           /\ last' = Called(last, "seek", pos, out)
           /\ cursor' = CursorAfter("seek", pos, out)
    /\ ReaderFrame

RRead(n) ==
    /\ rdr.state = "ok"
    /\ LET out == Read(Begin(rdr), n)
       IN  /\ rdr' = out.r
           /\ last' = Called(last, "read", n, out)
           /\ cursor' = CursorAfter("read", n, out)
    /\ ReaderFrame

RTell ==
    /\ rdr.state = "ok"
    /\ LET out == Tell(Begin(rdr))
       IN  /\ rdr' = out.r
           /\ last' = Called(last, "tell", 0, out)
           /\ cursor' = CursorAfter("tell", 0, out)
    /\ ReaderFrame

RClose ==
    /\ rdr.state = "ok"
    /\ LET out == Close(Begin(rdr))
       IN  /\ rdr' = out.r
           /\ last' = Called(last, "close", 0, out)
           /\ cursor' = CursorAfter("close", 0, out)
    /\ ReaderFrame

(***************************************************************************)
(* File: the instance and its row, and the calls made on it.               *)
(***************************************************************************)
\* size = BoundedPositiveIntegerField(null=True): no size yet
NoSize == -1
\* checksum = CharField(null=True): no checksum yet
NoChecksum == 0

\* A File that was created and saved without content: size and checksum are
\* null on the instance and in the row (saved).
NewFile ==
    [size |-> NoSize, checksum |-> NoChecksum,
     saved |-> [size |-> NoSize, checksum |-> NoChecksum]]

\* A call on the File: its arguments (data and blobSize of putfile, ids and
\* checksum of assemble_from_file_blob_ids, commit), the error it raised,
\* the index rows it created in creation order, and what it returned: the
\* rows for putfile, the temp file tf with its position for assemble.
NoFileCall ==
    [op |-> "none", data |-> <<>>, blobSize |-> 0, ids |-> <<>>, checksum |-> NoChecksum,
     commit |-> FALSE, err |-> "none", created |-> <<>>, tf |-> <<>>, tfpos |-> 0,
     \* history: some call on the File so far has raised
     failed |-> FALSE]

\* The locals of a putfile call: what is left of fileobj, blob_size,
\* commit, offset, the running checksum and results.
PutIdle ==
    [rest |-> <<>>, blobSize |-> 0, commit |-> FALSE, offset |-> 0,
     fsum |-> 0, results |-> <<>>]

\* No caller is in a putfile call.
NoPut == <<>>

\* The directory save_to writes to: nothing at path (or the bytes of the
\* file there), and the number of temp files lying in the directory.
NoEntry == <<-1>>

EmptyDir == [dest |-> NoEntry, temps |-> 0]

RDetach ==
    /\ rdr.state = "ok"
    /\ LET out == Detach(Begin(rdr))
       IN  /\ rdr' = out.r
           /\ last' = Called(last, "detach", 0, out)
           /\ cursor' = CursorAfter("detach", 0, out)
    /\ ReaderFrame

ReaderIdle ==
    /\ fileBlobs = <<>>
    /\ blobTab = <<>>
    /\ index = {}
    /\ rdr = NewReader
    /\ last = NoCall
    /\ cursor = 0
    /\ rdr2 = NewReader
    /\ last2 = NoCall
    /\ workers = NoWorkers
    /\ file = NewFile
    /\ fcall = NoFileCall
    /\ put = NoPut
    /\ dir = EmptyDir

(***************************************************************************)
(* The blob store under concurrent callers.                                *)
(***************************************************************************)
\* The blob that is stored before the first call: an earlier upload of
\* StoredData, written to path 1 and saved as row 1.
StoredData == <<0>>

StoredBlob == [id |-> 1, checksum |-> Sha1(StoredData), size |-> Len(StoredData), path |-> 1]

BlobInit ==
    /\ rows = {StoredBlob}
    /\ owners = {}
    /\ nextId = StoredBlob.id + 1
    /\ store = {[path |-> StoredBlob.path, bytes |-> StoredData]}
    /\ nextPath = StoredBlob.path + 1
    /\ tasks = {}
    /\ lock = [c \in Checksums |-> NoOne]
    /\ call = [p \in Callers |-> IdleFrame]
    /\ calls = 0
    /\ saves = [c \in Checksums |-> IF c = StoredBlob.checksum THEN 1 ELSE 0]
    /\ expired = [c \in Checksums |-> FALSE]
    /\ delCalled = [c \in Checksums |-> FALSE]
    /\ returned = [c \in Checksums |-> IF c = StoredBlob.checksum THEN {StoredBlob.id} ELSE {}]

Init == BlobInit /\ ReaderIdle

Next ==
    \/ \E p \in Callers, d \in UploadData : FfCall(p, d)
    \/ \E p \in Callers : FfLock(p)
    \/ \E p \in Callers : FfLockTimeout(p)
    \/ \E p \in Callers : FfCheck(p)
    \/ \E p \in Callers : FfUpload(p)
    \/ \E p \in Callers : FfSave(p)
    \/ \E p \in Callers : FfExit(p)
    \/ \E p \in Callers, b \in rows : DelCall(p, b)
    \/ \E p \in Callers : DelLock(p)
    \/ \E p \in Callers : DelLockTimeout(p)
    \/ \E p \in Callers : DelRow(p)
    \/ \E p \in Callers : DelExit(p)
    \/ \E p \in Callers : DelFile(p)
    \/ \E p \in Callers, files \in PlainBatches : FsCall(p, files, "org1")
    \/ \E p \in Callers : FsNext(p)
    \/ \E p \in Callers : FlSave(p)
    \/ \E p \in Callers : FlOwn(p)
    \/ \E p \in Callers : FlExit(p)
    \/ \E p \in Callers : FsLock(p)
    \/ \E p \in Callers : FsLockTimeout(p)
    \/ \E p \in Callers : FsCheck(p)
    \/ \E p \in Callers : FsHit(p)
    \/ \E p \in Callers : FsHitOwn(p)
    \/ \E p \in Callers : FsUpload(p)
    \/ \E p \in Callers : FsFinally(p)
    \/ \E c \in Checksums : Expire(c)

Spec == Init /\ [][Next]_vars

(***************************************************************************)
(* One reader on a file, in streaming or prefetch mode.                    *)
(***************************************************************************)
FileTables ==
    /\ fileBlobs \in Files
    /\ \E ids \in UploadOrders(fileBlobs) :
          /\ blobTab = [b \in 1..Cardinality({fileBlobs[i] : i \in 1..Len(fileBlobs)}) |->
                           CHOOSE d \in {fileBlobs[i] : i \in 1..Len(fileBlobs)} : ids[d] = b]
          /\ index = IndexRows(fileBlobs, ids)
    /\ rdr = NewReader
    /\ last = NoCall
    /\ cursor = 0
    /\ rdr2 = NewReader
    /\ last2 = NoCall
    /\ workers = NoWorkers
    /\ file = NewFile
    /\ fcall = NoFileCall
    /\ put = NoPut

FileInit == FileTables /\ dir = EmptyDir

InitReader == BlobInit /\ FileInit

SeekArgs == -1..(SumSizes(fileBlobs) + 1)

ReadArgs == -1..MaxRead

NextReader ==
    \/ \E prefetch \in BOOLEAN : RConstruct(prefetch)
    \/ \E pos \in SeekArgs : RSeek(pos)
    \/ \E n \in ReadArgs : RRead(n)
    \/ RTell
    \/ RClose
    \/ RDetach

SpecReader == InitReader /\ [][NextReader]_vars

(***************************************************************************)
(* A streaming reader and a prefetch reader on the same file, given the    *)
(* same read calls.                                                        *)
(***************************************************************************)
ModesFrame == UNCHANGED <<blobVars, fileBlobs, blobTab, index, cursor, workers, fileVars>>

MConstruct ==
    /\ rdr.state = "new"
    /\ rdr2.state = "new"
    /\ \E got \in FetchChoices(GetChunkedBlob) :
          LET out == Construct(GetChunkedBlob, FALSE, NoFetch(GetChunkedBlob))
              out2 == Construct(GetChunkedBlob, TRUE, got)
          IN  /\ rdr' = out.r
              /\ last' = Called(last, "open", 0, out)
              /\ rdr2' = out2.r
              /\ last2' = Called(last2, "open", 0, out2)
    /\ ModesFrame

MRead(n) ==
    /\ rdr.state = "ok"
    /\ rdr2.state = "ok"
    /\ LET out == Read(Begin(rdr), n)
           out2 == Read(Begin(rdr2), n)
       IN  /\ rdr' = out.r
           /\ last' = Called(last, "read", n, out)
           /\ rdr2' = out2.r
           /\ last2' = Called(last2, "read", n, out2)
    /\ ModesFrame

NextModes ==
    \/ MConstruct
    \/ \E n \in ReadArgs : MRead(n)

SpecModes == InitReader /\ [][NextModes]_vars

(***************************************************************************)
(* File.putfile and File.assemble_from_file_blob_ids, called one after the *)
(* other on one File.                                                      *)
(***************************************************************************)
\* The content of the second blob that is stored before the first call.
OtherData == <<1, 2>>

OtherBlob == [id |-> 2, checksum |-> Sha1(OtherData), size |-> Len(OtherData), path |-> 2]

\* The inputs of putfile: the bytes of fileobj and the blob_size (1 MB by
\* default, here in bytes of the model).
PutData == {<<>>, <<0>>, <<0, 0>>, <<1, 2, 1>>}
BlobSizes == {1, 2}

\* The id lists handed to assemble_from_file_blob_ids: database order, the
\* reverse of it, an id twice, an id that has no row until a putfile has
\* made a third blob.
AssembleIds == {<<1>>, <<1, 2>>, <<2, 1>>, <<1, 1>>, <<3, 1>>}

\* The tables a from_file call works on.
Db == [rows |-> rows, store |-> store, nextId |-> nextId, nextPath |-> nextPath]

\* FileBlob.from_file(blob_fileobj) run from call to return with no other
\* caller at work: the lock is free and is released at the end, the row
\* with the checksum is returned when there is one, otherwise the bytes
\* are written to a new path and the row inserted.
FromFileAlone(db, bytes) ==
    LET sc == GetSizeAndChecksum(bytes)
        existing == {r \in db.rows : r.checksum = sc.checksum}
    IN  IF existing # {} THEN [db |-> db, blob |-> CHOOSE r \in existing : TRUE]
        ELSE LET blob == [id |-> db.nextId, checksum |-> sc.checksum,
                          size |-> sc.size, path |-> db.nextPath]
             IN  [db |-> [rows |-> db.rows \cup {blob},
                          store |-> db.store \cup {[path |-> db.nextPath, bytes |-> bytes]},
                          nextId |-> db.nextId + 1,
                          nextPath |-> db.nextPath + 1],
                  blob |-> blob]

\* unique_together (file, blob, offset) on sentry_fileblobindex: creating a
\* row that is there raises IntegrityError.
UniqueIndexRow(idx, row) == row \notin idx

\* A loop that moves the offset on by blob_size, not by the size of the
\* blob (mutant of PutLoop).
RECURSIVE PutLoopFixedStep(_, _, _)
PutLoopFixedStep(st, rest, blobSize) ==
    IF rest = <<>> THEN st
    ELSE LET contents == SubSeq(rest, 1, Min(blobSize, Len(rest)))
             ff == FromFileAlone(st.db, contents)
             row == [blob |-> ff.blob.id, offset |-> st.offset]
             hashed == [st EXCEPT !.db = ff.db,
                                  !.checksum = Sha1Update(@, contents)]
         IN  IF ~UniqueIndexRow(st.index, row)
             THEN [hashed EXCEPT !.err = "IntegrityError"]
             ELSE PutLoopFixedStep([hashed EXCEPT !.index = @ \cup {row},
                                                  !.results = Append(@, row),
                                                  !.offset = @ + blobSize],
                                   SubSeq(rest, Len(contents) + 1, Len(rest)), blobSize)

\* putfile: the while loop.  st holds the tables, the index rows of the
\* File, offset, the running checksum, results and the error raised.
RECURSIVE PutLoop(_, _, _)
PutLoop(st, rest, blobSize) ==
    IF rest = <<>> THEN st
    ELSE LET contents == SubSeq(rest, 1, Min(blobSize, Len(rest)))
             ff == FromFileAlone(st.db, contents)
             row == [blob |-> ff.blob.id, offset |-> st.offset]
             hashed == [st EXCEPT !.db = ff.db,
                                  !.checksum = Sha1Update(@, contents)]
         IN  IF ~UniqueIndexRow(st.index, row)
             THEN [hashed EXCEPT !.err = "IntegrityError"]
             ELSE PutLoop([hashed EXCEPT !.index = @ \cup {row},
                                         !.results = Append(@, row),
                                         !.offset = @ + ff.blob.size],
                          SubSeq(rest, Len(contents) + 1, Len(rest)), blobSize)

FileFrame == UNCHANGED <<owners, tasks, lock, call, saves, expired, delCalled,
                         returned, fileBlobs, blobTab, rdr, last, cursor, rdr2, last2, workers,
                         dir, put>>

\* file.putfile(fileobj, blob_size, commit)
FPutfile(data, blobSize, commit) ==
    /\ Bounded
    /\ calls' = calls + 1
    /\ LET out == PutLoop([db |-> Db, index |-> index, offset |-> 0,
                           checksum |-> Sha1(<<>>), results |-> <<>>, err |-> "none"],
                          data, blobSize)
           done == [size |-> out.offset, checksum |-> out.checksum]
       IN  /\ rows' = out.db.rows
           /\ store' = out.db.store
           /\ nextId' = out.db.nextId
           /\ nextPath' = out.db.nextPath
           /\ index' = out.index
           /\ file' = IF out.err # "none" THEN file
                      ELSE [size |-> done.size, checksum |-> done.checksum,
                            saved |-> IF commit THEN done ELSE file.saved]
           /\ fcall' = [NoFileCall EXCEPT !.op = "putfile", !.data = data,
                                          !.blobSize = blobSize, !.commit = commit,
                                          !.err = out.err, !.created = out.results,
                                          !.failed = fcall.failed \/ out.err # "none"]
    /\ FileFrame

\* blob.getfile(): the bytes stored at the blob's path
BlobBytes(blob) == (CHOOSE f \in store : f.path = blob.path).bytes

\* FileBlob.objects.filter(id__in=file_blob_ids), sorted by
\* file_blob_ids.index(blob.id): one row per id that has one, at the place
\* of the id's first occurrence in the list.
RECURSIVE FileBlobsFrom(_, _)
FileBlobsFrom(ids, i) ==
    IF i > Len(ids) THEN <<>>
    ELSE LET found == {r \in rows : r.id = ids[i]}
             first == \A j \in 1..(i - 1) : ids[j] # ids[i]
         IN  (IF found # {} /\ first THEN <<CHOOSE r \in found : TRUE>> ELSE <<>>)
                 \o FileBlobsFrom(ids, i + 1)

FileBlobs(ids) == FileBlobsFrom(ids, 1)

\* assemble_from_file_blob_ids: the for loop over file_blobs.
RECURSIVE AssembleLoop(_, _)
AssembleLoop(st, blobs) ==
    IF blobs = <<>> THEN st
    ELSE LET blob == Head(blobs)
             row == [blob |-> blob.id, offset |-> st.offset]
         IN  IF ~UniqueIndexRow(st.index, row)
             THEN [st EXCEPT !.err = "IntegrityError"]
             ELSE AssembleLoop([st EXCEPT !.index = @ \cup {row},
                                          !.created = Append(@, row),
                                          !.checksum = Sha1Update(@, BlobBytes(blob)),
                                          !.tf = @ \o BlobBytes(blob),
                                          !.offset = @ + blob.size],
                               Tail(blobs))

\* A block that commits what it wrote although it was left by an exception
\* (mutant of Atomic).
NotAtomic(before, after, raised) == after

\* with transaction.atomic(): what the block wrote is rolled back when it
\* is left by an exception.
Atomic(before, after, raised) == IF raised THEN before ELSE after

\* file.assemble_from_file_blob_ids(file_blob_ids, checksum, commit)
FAssemble(ids, checksum, commit) ==
    /\ Bounded
    /\ calls' = calls + 1
    /\ LET run == AssembleLoop([index |-> index, offset |-> 0, checksum |-> Sha1(<<>>),
                                tf |-> <<>>, created |-> <<>>, err |-> "none"],
                               FileBlobs(ids))
           new == [size |-> run.offset, checksum |-> run.checksum]
           err == IF run.err # "none" THEN run.err
                  ELSE IF checksum # new.checksum THEN "AssembleChecksumMismatch"
                  ELSE "none"
       IN  /\ index' = Atomic(index, run.index, err # "none")
           /\ file' = IF run.err # "none" THEN file
                      ELSE [size |-> new.size, checksum |-> new.checksum,
                            saved |-> IF err = "none" /\ commit THEN new ELSE file.saved]
           /\ fcall' = [NoFileCall EXCEPT !.op = "assemble", !.ids = ids,
                                          !.checksum = checksum, !.commit = commit,
                                          !.err = err, !.created = run.created,
                                          !.tf = run.tf,
                                          !.tfpos = IF err = "none" THEN 0 ELSE Len(run.tf),
                                          !.failed = fcall.failed \/ err # "none"]
    /\ UNCHANGED <<rows, store, nextId, nextPath>>
    /\ FileFrame

\* The bytes of the blobs named by an id list, in list order, an id that
\* comes twice counted twice.
RECURSIVE ListBytes(_)
ListBytes(ids) ==
    IF ids = <<>> THEN <<>>
    ELSE LET found == {r \in rows : r.id = Head(ids)}
         IN  (IF found = {} THEN <<>> ELSE BlobBytes(CHOOSE r \in found : TRUE))
                 \o ListBytes(Tail(ids))

\* The bytes assemble_from_file_blob_ids puts together for an id list.
RECURSIVE BytesOf(_)
BytesOf(blobs) == IF blobs = <<>> THEN <<>> ELSE BlobBytes(Head(blobs)) \o BytesOf(Tail(blobs))

\* The checksums a caller expects: of the blobs in list order, of what the
\* call puts together, of nothing.
ExpectedChecksums(ids) ==
    {Sha1(ListBytes(ids)), Sha1(BytesOf(FileBlobs(ids))), Sha1(<<>>)}

InitFile ==
    /\ rows = {StoredBlob, OtherBlob}
    /\ owners = {}
    /\ nextId = OtherBlob.id + 1
    /\ store = {[path |-> StoredBlob.path, bytes |-> StoredData],
                [path |-> OtherBlob.path, bytes |-> OtherData]}
    /\ nextPath = OtherBlob.path + 1
    /\ tasks = {}
    /\ lock = [c \in Checksums |-> NoOne]
    /\ call = [p \in Callers |-> IdleFrame]
    /\ calls = 0
    /\ saves = [c \in Checksums |-> 1]
    /\ expired = [c \in Checksums |-> FALSE]
    /\ delCalled = [c \in Checksums |-> FALSE]
    /\ returned = [c \in Checksums |-> {}]
    /\ ReaderIdle

NextFile ==
    \/ \E data \in PutData, blobSize \in BlobSizes, commit \in BOOLEAN :
          FPutfile(data, blobSize, commit)
    \/ \E ids \in AssembleIds, commit \in BOOLEAN :
          \E checksum \in ExpectedChecksums(ids) : FAssemble(ids, checksum, commit)

SpecFile == InitFile /\ [][NextFile]_vars

(***************************************************************************)
(* Two intake calls (from_file, from_files) side by side, with reference   *)
(* checksums, failing storage and expiring leases.                         *)
(***************************************************************************)
\* The batches: the contents in every arrangement, up to one source per
\* content.  The last source can come with a reference checksum, the right
\* one or a wrong one: a mismatch ends the call, so a reference on an
\* earlier source adds no path.
IntakeBatches ==
    {[b EXCEPT ![Len(b)].ref = r] :
        b \in UNION {[1..n -> {f \in FileItems : f.ref = NoRef}] :
                        n \in 1..Cardinality(UploadData)},
        r \in {NoRef} \cup Checksums}

\* Nothing is stored, or the one blob of StoredData.
InitIntake ==
    /\ \E stored \in SUBSET {StoredBlob} :
          /\ rows = stored
          /\ store = {[path |-> b.path, bytes |-> StoredData] : b \in stored}
          /\ saves = [c \in Checksums |-> Cardinality({b \in stored : b.checksum = c})]
          /\ returned = [c \in Checksums |-> {b.id : b \in {x \in stored : x.checksum = c}}]
    /\ owners = {}
    /\ nextId = StoredBlob.id + 1
    /\ nextPath = StoredBlob.path + 1
    /\ tasks = {}
    /\ lock = [c \in Checksums |-> NoOne]
    /\ call = [p \in Callers |-> IdleFrame]
    /\ calls = 0
    /\ expired = [c \in Checksums |-> FALSE]
    /\ delCalled = [c \in Checksums |-> FALSE]
    /\ ReaderIdle

\* Every caller has one call to make.
OneCallEach == calls < Cardinality(Callers)

NextIntake ==
    \/ \E p \in Callers, d \in UploadData : OneCallEach /\ FfCall(p, d)
    \/ \E p \in Callers : FfLock(p)
    \/ \E p \in Callers : FfLockTimeout(p)
    \/ \E p \in Callers : FfCheck(p)
    \/ \E p \in Callers : FfUpload(p)
    \/ \E p \in Callers : FfUploadFail(p)
    \/ \E p \in Callers : FfSave(p)
    \/ \E p \in Callers : FfExit(p)
    \/ \E p \in Callers, files \in IntakeBatches : OneCallEach /\ FsCall(p, files, NoOrg)
    \/ \E p \in Callers : FsNext(p)
    \/ \E p \in Callers : FlSave(p)
    \/ \E p \in Callers : FlOwn(p)
    \/ \E p \in Callers : FlExit(p)
    \/ \E p \in Callers : FsLock(p)
    \/ \E p \in Callers : FsLockTimeout(p)
    \/ \E p \in Callers : FsCheck(p)
    \/ \E p \in Callers : FsHit(p)
    \/ \E p \in Callers : FsHitOwn(p)
    \/ \E p \in Callers : FsUpload(p)
    \/ \E p \in Callers : FsUploadFail(p)
    \/ \E p \in Callers : FsFinally(p)
    \/ \E c \in Checksums : Expire(c)

SpecIntake == InitIntake /\ [][NextIntake]_vars

(***************************************************************************)
(* Batch uploads for an organization: two callers of from_files, each with *)
(* one call, over batches whose sources can carry reference checksums.     *)
(***************************************************************************)
\* The batches: the contents in every arrangement, up to one source per
\* content, and at most one source with a reference checksum, the right one
\* or a wrong one.
OwnedBatches ==
    UNION {{[b EXCEPT ![i].ref = r] : i \in 1..Len(b), r \in {NoRef} \cup Checksums} :
              b \in UNION {[1..n -> {f \in FileItems : f.ref = NoRef}] :
                              n \in 1..Cardinality(UploadData)}}

\* The blob of StoredData is stored.
InitBatch == InitIntake /\ rows = {StoredBlob}

\* Every caller makes one call, for the same organization.
NextBatch ==
    \/ \E p \in Callers, files \in OwnedBatches :
          OneCallEach /\ FsCall(p, files, "org1")
    \/ \E p \in Callers : FsNext(p)
    \/ \E p \in Callers : FlSave(p)
    \/ \E p \in Callers : FlOwn(p)
    \/ \E p \in Callers : FlExit(p)
    \/ \E p \in Callers : FsLock(p)
    \/ \E p \in Callers : FsLockTimeout(p)
    \/ \E p \in Callers : FsCheck(p)
    \/ \E p \in Callers : FsHit(p)
    \/ \E p \in Callers : FsHitOwn(p)
    \/ \E p \in Callers : FsUpload(p)
    \/ \E p \in Callers : FsUploadFail(p)
    \/ \E p \in Callers : FsFinally(p)
    \/ \E c \in Checksums : Expire(c)

SpecBatch == InitBatch /\ [][NextBatch]_vars

(***************************************************************************)
(* Deletion: callers that delete blobs or only their bytes, readers that   *)
(* hold blob instances, and the deferred task.                             *)
(***************************************************************************)
NextDelete ==
    \/ \E p \in Callers, b \in rows : DelCall(p, b)
    \/ \E p \in Callers : DelLock(p)
    \/ \E p \in Callers : DelLockTimeout(p)
    \/ \E p \in Callers : DelRow(p)
    \/ \E p \in Callers : DelExit(p)
    \/ \E p \in Callers : DelFileKept(p)
    \/ \E p \in Callers, b \in rows, commit \in BOOLEAN : DeleteFile(p, b, commit)
    \/ \E t \in tasks : RunTask(t)
    \/ \E p \in Callers, b \in rows : GfLoad(p, b)
    \/ \E p \in Callers : GfOpen(p)
    \/ \E p \in Callers : GfDone(p)
    \/ \E c \in Checksums : Expire(c)

SpecDelete == InitFile /\ [][NextDelete]_vars

(***************************************************************************)
(* File.save_to                                                            *)
(***************************************************************************)
\* What was at the destination before: the bytes of some other file.
OldData == <<2, 2>>

\* Where a save_to call can fail apart from its prefetch workers: creating
\* the temp file, extending and mapping it, os.rename, and the f.close()
\* after the rename.
SaveFailures == {"none", "tempfile", "zero", "rename", "close"}

\* file.save_to(path): the prefetching reader creates its temp file in the
\* directory of path with delete=False; the file is detached, renamed onto
\* path and closed; the finally block closes and removes the temp file when
\* f is still set, which it is only once detach_tempfile has returned
FSaveTo(got, fail) ==
    /\ fcall.op = "none"
    /\ LET made == Construct(GetChunkedBlob, TRUE, got)
           f == Detach(made.r)
           raised(err) == [NoFileCall EXCEPT !.op = "save_to", !.err = err,
                                             !.failed = TRUE]
       IN  IF fail = "tempfile"
           THEN /\ dir' = dir
                /\ fcall' = raised("OSError")
           ELSE IF fail = "zero" \/ made.err # "none" \/ f.err # "none"
           THEN /\ dir' = [dir EXCEPT !.temps = @ + 1]
                /\ fcall' = raised("IOError")
           ELSE IF fail = "rename"
           THEN /\ dir' = dir
                /\ fcall' = raised("OSError")
           ELSE IF fail = "close"
           THEN /\ dir' = [dir EXCEPT !.dest = f.res]
                /\ fcall' = [raised("IOError") EXCEPT !.tf = f.res]
           ELSE /\ dir' = [dir EXCEPT !.dest = f.res]
                /\ fcall' = [NoFileCall EXCEPT !.op = "save_to", !.tf = f.res]
    /\ UNCHANGED <<blobVars, readerVars, file, put>>

\* The destination is empty, or holds another file.
InitSave ==
    /\ BlobInit
    /\ FileTables
    /\ dir \in {EmptyDir, [EmptyDir EXCEPT !.dest = OldData]}

NextSave ==
    \E got \in FetchChoices(GetChunkedBlob), fail \in SaveFailures : FSaveTo(got, fail)

SpecSave == InitSave /\ [][NextSave]_vars

(***************************************************************************)
(* Long batches: from_files on more new contents than the semaphore has    *)
(* slots, with every thread running on.                                    *)
(***************************************************************************)
\* The one-byte contents of a long batch: the stored content and one more
\* new content than there are slots.
LongData == {<<k>> : k \in 0..(MULTI_BLOB_UPLOAD_CONCURRENCY + 1)}

LongChecksums == {Sha1(d) : d \in LongData}

\* Caller "a" uploads the long batch, caller "b" one of its contents.
LongBatch(p) ==
    IF p = "a"
    THEN [i \in 1..Cardinality(LongData) |-> [bytes |-> <<i - 1>>, ref |-> NoRef]]
    ELSE <<[bytes |-> <<1>>, ref |-> NoRef]>>

\* Only StoredBlob is stored.
InitLong ==
    /\ rows = {StoredBlob}
    /\ owners = {}
    /\ nextId = StoredBlob.id + 1
    /\ store = {[path |-> StoredBlob.path, bytes |-> StoredData]}
    /\ nextPath = StoredBlob.path + 1
    /\ tasks = {}
    /\ lock = [c \in LongChecksums |-> NoOne]
    /\ call = [p \in Callers |-> IdleFrame]
    /\ calls = 0
    /\ saves = [c \in LongChecksums |-> 0]
    /\ expired = [c \in LongChecksums |-> FALSE]
    /\ delCalled = [c \in LongChecksums |-> FALSE]
    /\ returned = [c \in LongChecksums |-> {}]
    /\ ReaderIdle

\* The steps of a from_files call once it has been made.
LongStep(p) ==
    \/ FsNext(p)
    \/ FlSave(p)
    \/ FlOwn(p)
    \/ FlExit(p)
    \/ FsLock(p)
    \/ FsLockTimeout(p)
    \/ FsCheck(p)
    \/ FsHit(p)
    \/ FsHitOwn(p)
    \/ FsUpload(p)
    \/ FsUploadFail(p)
    \/ FsFinally(p)

NextLong ==
    \/ \E p \in Callers : OneCallEach /\ FsCall(p, LongBatch(p), "org1")
    \/ \E p \in Callers : LongStep(p)

\* Every backend call returns and every lock acquisition succeeds or times
\* out: a call that can take a step takes one.
SpecLong ==
    InitLong /\ [][NextLong]_vars /\ \A p \in Callers : WF_vars(LongStep(p))

(***************************************************************************)
(* The prefetch step by step: the constructor of a prefetch-mode reader    *)
(* with its fetch workers, then the calls on the reader.                   *)
(***************************************************************************)
\* The temp file while the workers write: the reader has no _curfile yet.
Fetching(r) == r.state = "prefetching"

AllFinished == \A i \in DOMAIN workers : workers[i].st \in {"done", "failed"}

\* __init__(prefetch=True) up to the end of the submit loop: the temp file
\* is zeroed out to size and one fetch_file per index entry is submitted;
\* with size 0 _prefetch returns before the pool is made
PStart ==
    /\ rdr.state = "new"
    /\ LET r0 == [NewReader EXCEPT !.indexes = GetChunkedBlob, !.prefetched = TRUE]
           size == Size(r0)
       IN  /\ rdr' = [r0 EXCEPT !.state = "prefetching", !.tmp = [k \in 1..size |-> 0],
                                !.tmpOpen = TRUE]
           /\ workers' = IF size = 0 THEN NoWorkers
                         ELSE [i \in 1..Len(r0.indexes) |-> [st |-> "running", got |-> 0]]
    /\ UNCHANGED <<blobVars, fileBlobs, blobTab, index, last, cursor, rdr2, last2, fileVars>>

\* fetch_file: chunk = sf.read(65535); mem[offset:offset + len(chunk)] = chunk
PWrite(i) ==
    /\ i \in DOMAIN workers
    /\ workers[i].st = "running"
    /\ workers[i].got < rdr.indexes[i].size
    /\ LET idx == rdr.indexes[i]
           n == Min(FetchChunk, idx.size - workers[i].got)
           from == idx.offset + workers[i].got
       IN  /\ rdr' = [rdr EXCEPT !.tmp = [k \in 1..Len(rdr.tmp) |->
                                            IF from < k /\ k <= from + n
                                            THEN blobTab[idx.blob][k - idx.offset]
                                            ELSE rdr.tmp[k]]]
           /\ workers' = [workers EXCEPT ![i].got = @ + n]
    /\ UNCHANGED <<blobVars, fileBlobs, blobTab, index, last, cursor, rdr2, last2, fileVars>>

\* fetch_file: if not chunk: break
PDone(i) ==
    /\ i \in DOMAIN workers
    /\ workers[i].st = "running"
    /\ workers[i].got = rdr.indexes[i].size
    /\ workers' = [workers EXCEPT ![i].st = "done"]
    /\ UNCHANGED <<blobVars, fileBlobs, blobTab, index, rdr, last, cursor, rdr2, last2, fileVars>>

\* fetch_file: getfile() or sf.read raises; the exception stays in the
\* worker's future
PFail(i) ==
    /\ i \in DOMAIN workers
    /\ workers[i].st = "running"
    /\ workers[i].got < rdr.indexes[i].size
    /\ workers' = [workers EXCEPT ![i].st = "failed"]
    /\ UNCHANGED <<blobVars, fileBlobs, blobTab, index, rdr, last, cursor, rdr2, last2, fileVars>>

\* The rest of the constructor: mem.flush(); self._curfile = f; self.open()
Handover ==
    LET r1 == [rdr EXCEPT !.curfile = [kind |-> "temp", blob |-> NoId, pos |-> Len(rdr.tmp)],
                          !.fetchFailed = {i \in DOMAIN workers : workers[i].st = "failed"}]
        out == Open(r1)
    IN  /\ rdr' = [out.r EXCEPT !.state = IF out.err = "none" THEN "ok" ELSE "failed"]
        /\ last' = Called(last, "open", 0, out)
        /\ cursor' = CursorAfter("open", 0, out)
        /\ UNCHANGED <<blobVars, fileBlobs, blobTab, index, rdr2, last2, workers, fileVars>>

\* A constructor that goes on without waiting for the workers (mutant of
\* PJoin).
PJoinNoWait ==
    /\ Fetching(rdr)
    /\ Handover

\* The end of `with ThreadPoolExecutor(max_workers=4) as exe`: the exit of
\* the with block waits for every submitted fetch_file
PJoin ==
    /\ Fetching(rdr)
    /\ AllFinished
    /\ Handover

NextPrefetch ==
    \/ PStart
    \/ \E i \in 1..MaxBlobs : PWrite(i)
    \/ \E i \in 1..MaxBlobs : PDone(i)
    \/ \E i \in 1..MaxBlobs : PFail(i)
    \/ PJoin
    \/ RSeek(0)
    \/ \E n \in {-1, ReadChunk} : RRead(n)
    \/ RTell
    \/ RClose
    \/ RDetach

SpecPrefetch == InitReader /\ [][NextPrefetch]_vars

(***************************************************************************)
(* Rows and bytes: intake calls, delete and the deferred deletion task     *)
(* side by side.                                                           *)
(***************************************************************************)
\* Batches of one or two byte-sources without reference checksums.
StoreBatches ==
    UNION {[1..n -> {f \in FileItems : f.ref = NoRef}] : n \in 1..Cardinality(UploadData)}

NextStore ==
    \/ \E p \in Callers, d \in UploadData : OneCallEach /\ FfCall(p, d)
    \/ \E p \in Callers : FfLock(p)
    \/ \E p \in Callers : FfLockTimeout(p)
    \/ \E p \in Callers : FfCheck(p)
    \/ \E p \in Callers : FfUpload(p)
    \/ \E p \in Callers : FfUploadFail(p)
    \/ \E p \in Callers : FfSave(p)
    \/ \E p \in Callers : FfExit(p)
    \/ \E p \in Callers, files \in StoreBatches : OneCallEach /\ FsCall(p, files, NoOrg)
    \/ \E p \in Callers : FsNext(p)
    \/ \E p \in Callers : FlSave(p)
    \/ \E p \in Callers : FlOwn(p)
    \/ \E p \in Callers : FlExit(p)
    \/ \E p \in Callers : FsLock(p)
    \/ \E p \in Callers : FsLockTimeout(p)
    \/ \E p \in Callers : FsCheck(p)
    \/ \E p \in Callers : FsHit(p)
    \/ \E p \in Callers : FsHitOwn(p)
    \/ \E p \in Callers : FsUpload(p)
    \/ \E p \in Callers : FsUploadFail(p)
    \/ \E p \in Callers : FsFinally(p)
    \/ \E p \in Callers, b \in rows : OneCallEach /\ DelCall(p, b)
    \/ \E p \in Callers : DelLock(p)
    \/ \E p \in Callers : DelLockTimeout(p)
    \/ \E p \in Callers : DelRow(p)
    \/ \E p \in Callers : DelExit(p)
    \/ \E p \in Callers : DelFile(p)
    \/ \E t \in tasks : RunTask(t)
    \/ \E c \in Checksums : Expire(c)

SpecStore == InitFile /\ [][NextStore]_vars

(***************************************************************************)
(* One call after the other: from_file, delete and deletefile(commit=True) *)
(* on the stored blobs, and the deferred task.                             *)
(***************************************************************************)
\* No call is in progress.
Quiet == \A p \in Callers : call[p].pc = "idle"

NextReuse ==
    \/ \E p \in Callers, d \in UploadData : Quiet /\ FfCall(p, d)
    \/ \E p \in Callers : FfLock(p)
    \/ \E p \in Callers : FfCheck(p)
    \/ \E p \in Callers : FfUpload(p)
    \/ \E p \in Callers : FfUploadFail(p)
    \/ \E p \in Callers : FfSave(p)
    \/ \E p \in Callers : FfExit(p)
    \/ \E p \in Callers, b \in rows : Quiet /\ DelCall(p, b)
    \/ \E p \in Callers : DelLock(p)
    \/ \E p \in Callers : DelRow(p)
    \/ \E p \in Callers : DelExit(p)
    \/ \E p \in Callers : DelFile(p)
    \/ \E p \in Callers, b \in rows : Quiet /\ DeleteFile(p, b, TRUE)
    \/ \E t \in tasks : RunTask(t)

SpecReuse == InitFile /\ [][NextReuse]_vars

(***************************************************************************)
(* File.putfile step by step, next to FileBlob.delete.                     *)
(***************************************************************************)
\* file.putfile(fileobj, blob_size, commit): results = [], offset = 0,
\* checksum = sha1(b'')
PfCall(p, data, blobSize, commit) ==
    /\ call[p].pc = "idle"
    /\ Bounded
    /\ calls' = calls + 1
    /\ Set(p, [IdleFrame EXCEPT !.pc = "pf_read", !.op = "putfile"])
    /\ put' = [q \in DOMAIN put \cup {p} |->
                  IF q = p
                  THEN [PutIdle EXCEPT !.rest = data, !.blobSize = blobSize,
                                       !.commit = commit, !.fsum = Sha1(<<>>)]
                  ELSE put[q]]
    /\ UNCHANGED <<rows, owners, nextId, store, nextPath, tasks, lock,
                   saves, expired, delCalled, returned>>
    /\ UNCHANGED <<readerVars, file, fcall, dir>>

\* contents = fileobj.read(blob_size); checksum.update(contents);
\* FileBlob.from_file(ContentFile(contents)) is entered
PfRead(p) ==
    /\ call[p].pc = "pf_read"
    /\ put[p].rest # <<>>
    /\ LET contents == SubSeq(put[p].rest, 1, Min(put[p].blobSize, Len(put[p].rest)))
       IN  /\ Set(p, [call[p] EXCEPT !.pc = "ff_lock",
                                     !.bytes = contents,
                                     !.size = GetSizeAndChecksum(contents).size,
                                     !.checksum = GetSizeAndChecksum(contents).checksum,
                                     !.blob = NoBlob])
           /\ put' = [put EXCEPT ![p].rest = SubSeq(@, Len(contents) + 1, Len(@)),
                                 ![p].fsum = Sha1Update(@, contents)]
    /\ UNCHANGED <<rows, owners, nextId, store, nextPath, tasks, lock, calls,
                   saves, expired, delCalled, returned>>
    /\ UNCHANGED <<readerVars, file, fcall, dir>>

\* from_file leaves its with block: the lock is released, and from_file
\* returns the blob to putfile or its exception ends putfile
PfBlob(p) ==
    /\ call[p].pc = "ff_exit"
    /\ call[p].op = "putfile"
    /\ lock' = Release(p, {LockKey(call[p].checksum)})
    /\ returned' = IF call[p].err = "none"
                   THEN [returned EXCEPT ![call[p].checksum] = @ \cup {call[p].ret}]
                   ELSE returned
    /\ IF call[p].err = "none"
       THEN /\ Set(p, [call[p] EXCEPT !.pc = "pf_index"])
            /\ UNCHANGED <<fcall, put>>
       ELSE /\ Set(p, IdleFrame)
            /\ put' = [q \in DOMAIN put \ {p} |-> put[q]]
            /\ fcall' = [NoFileCall EXCEPT !.op = "putfile", !.blobSize = put[p].blobSize,
                                           !.commit = put[p].commit,
                                           !.err = call[p].err,
                                           !.created = put[p].results,
                                           !.failed = TRUE]
    /\ UNCHANGED <<rows, owners, nextId, store, nextPath, tasks, calls,
                   saves, expired, delCalled>>
    /\ UNCHANGED <<readerVars, file, dir>>

\* results.append(FileBlobIndex.objects.create(file=self, blob=blob,
\* offset=offset)); offset += blob.size.  The foreign key to sentry_fileblob
\* and unique_together make the insert raise IntegrityError.
PfIndex(p) ==
    /\ call[p].pc = "pf_index"
    /\ LET row == [blob |-> call[p].blob.id, offset |-> put[p].offset]
       IN  IF (\E r \in rows : r.id = row.blob) /\ UniqueIndexRow(index, row)
           THEN /\ index' = index \cup {row}
                /\ Set(p, [call[p] EXCEPT !.pc = "pf_read"])
                /\ put' = [put EXCEPT ![p].results = Append(@, row),
                                      ![p].offset = @ + call[p].blob.size]
                /\ UNCHANGED fcall
           ELSE /\ Set(p, IdleFrame)
                /\ put' = [q \in DOMAIN put \ {p} |-> put[q]]
                /\ fcall' = [NoFileCall EXCEPT !.op = "putfile",
                                               !.blobSize = put[p].blobSize,
                                               !.commit = put[p].commit,
                                               !.err = "IntegrityError",
                                               !.created = put[p].results,
                                               !.failed = TRUE]
                /\ UNCHANGED index
    /\ UNCHANGED <<rows, owners, nextId, store, nextPath, tasks, lock, calls,
                   saves, expired, delCalled, returned>>
    /\ UNCHANGED <<fileBlobs, blobTab, rdr, last, cursor, rdr2, last2, workers, file, dir>>

\* fileobj is read to its end: self.size = offset; self.checksum =
\* checksum.hexdigest(); if commit: self.save(); return results
PfReturn(p) ==
    /\ call[p].pc = "pf_read"
    /\ put[p].rest = <<>>
    /\ LET done == [size |-> put[p].offset, checksum |-> put[p].fsum]
       IN  /\ file' = [size |-> done.size, checksum |-> done.checksum,
                       saved |-> IF put[p].commit THEN done ELSE file.saved]
           /\ fcall' = [NoFileCall EXCEPT !.op = "putfile", !.blobSize = put[p].blobSize,
                                          !.commit = put[p].commit,
                                          !.created = put[p].results,
                                          !.failed = fcall.failed]
    /\ Set(p, IdleFrame)
    /\ put' = [q \in DOMAIN put \ {p} |-> put[q]]
    /\ UNCHANGED <<rows, owners, nextId, store, nextPath, tasks, lock, calls,
                   saves, expired, delCalled, returned>>
    /\ UNCHANGED <<readerVars, dir>>

\* No index row references the blob.
Unreferenced(b) == \A x \in index : x.blob # b.id

NextPut ==
    \/ \E p \in Callers, data \in PutData, blobSize \in BlobSizes, commit \in BOOLEAN :
          OneCallEach /\ PfCall(p, data, blobSize, commit)
    \/ \E p \in Callers : PfRead(p)
    \/ \E p \in Callers : FfLock(p)
    \/ \E p \in Callers : FfLockTimeout(p)
    \/ \E p \in Callers : FfCheck(p)
    \/ \E p \in Callers : FfUpload(p)
    \/ \E p \in Callers : FfUploadFail(p)
    \/ \E p \in Callers : FfSave(p)
    \/ \E p \in Callers : PfBlob(p)
    \/ \E p \in Callers : PfIndex(p)
    \/ \E p \in Callers : PfReturn(p)
    \/ \E p \in Callers, b \in rows : OneCallEach /\ Unreferenced(b) /\ DelCall(p, b)
    \/ \E p \in Callers : DelLock(p)
    \/ \E p \in Callers : DelLockTimeout(p)
    \/ \E p \in Callers : DelRow(p)
    \/ \E p \in Callers : DelExit(p)
    \/ \E p \in Callers : DelFile(p)

\* The checksums of the stored blobs and of every piece putfile can cut
\* from its data.
PutChecksums ==
    Checksums \cup UNION {{Sha1(SubSeq(d, i, j)) : i, j \in 1..Len(d)} : d \in PutData}

\* StoredBlob and OtherBlob are stored; the File has no index rows.
InitPut ==
    /\ rows = {StoredBlob, OtherBlob}
    /\ owners = {}
    /\ nextId = OtherBlob.id + 1
    /\ store = {[path |-> StoredBlob.path, bytes |-> StoredData],
                [path |-> OtherBlob.path, bytes |-> OtherData]}
    /\ nextPath = OtherBlob.path + 1
    /\ tasks = {}
    /\ lock = [c \in PutChecksums |-> NoOne]
    /\ call = [p \in Callers |-> IdleFrame]
    /\ calls = 0
    /\ saves = [c \in PutChecksums |-> IF c \in Checksums THEN 1 ELSE 0]
    /\ expired = [c \in PutChecksums |-> FALSE]
    /\ delCalled = [c \in PutChecksums |-> FALSE]
    /\ returned = [c \in PutChecksums |-> {}]
    /\ ReaderIdle

SpecPut == InitPut /\ [][NextPut]_vars

(***************************************************************************)
(* Properties of the blob store.                                           *)
(***************************************************************************)
\* The callers that are between their existence check for checksum c and
\* the save of the new row (or the return of the existing one).
InSection(p, c) ==
    \/ /\ call[p].pc \in {"ff_upload", "ff_save", "fs_upload", "fs_hit"}
       /\ call[p].checksum = c
    \/ /\ call[p].pc = "ff_exit"
       /\ call[p].checksum = c
       /\ call[p].err = "none"
    \/ /\ call[p].pc = "fs_flush"
       /\ \E i \in 1..Len(call[p].pending) : call[p].pending[i].checksum = c

\* Caller q is about to check existence, write bytes, insert a row or delete
\* a row for checksum c, and takes that step.
Touches(q, c) ==
    /\ \/ /\ call[q].pc \in {"ff_check", "fs_check", "ff_upload", "fs_upload",
                             "ff_save", "del_row"}
          /\ call[q].checksum = c
       \/ /\ call[q].pc = "fs_flush"
          /\ \E i \in 1..Len(call[q].pending) : call[q].pending[i].checksum = c
    /\ call'[q] # call[q]

\* C1: in every reachable state there is at most one FileBlob row per
\* checksum, also when a lease expires while its holder is still working.
C1_OneRowPerChecksum ==
    \A c \in Checksums : Cardinality({r \in rows : r.checksum = c}) <= 1

\* C1 witness: a lease has expired under its holder and a second uploader of
\* the same bytes ran into the unique constraint.
C1_Witness ==
    \E p \in Callers :
        /\ call[p].err = "IntegrityError"
        /\ expired[call[p].checksum]
        /\ saves[call[p].checksum] >= 2

\* C2: while no delete was called on a blob of checksum c and no lease on
\* c's lock has expired, storage.save has completed at most once for c,
\* exactly once as soon as an upload of c has handed back a blob, and every
\* upload of c hands back the same row, the only one with that checksum.
C2_SingleWrite ==
    \A c \in Checksums :
        (~expired[c] /\ ~delCalled[c]) =>
            /\ saves[c] <= 1
            /\ returned[c] # {} =>
                   /\ saves[c] = 1
                   /\ returned[c] = {r.id : r \in {x \in rows : x.checksum = c}}
                   /\ Cardinality(returned[c]) = 1
            /\ \A p \in Callers :
                   (call[p].pc = "ff_exit" /\ call[p].checksum = c /\ call[p].err = "none")
                       => call[p].ret \in {r.id : r \in {x \in rows : x.checksum = c}}

\* C2 witness: a later caller of from_file is handed the row that an earlier
\* upload of the same bytes created in this behaviour.
C2_Witness ==
    \E p \in Callers :
        /\ call[p].pc = "ff_exit"
        /\ call[p].err = "none"
        /\ call[p].checksum # StoredBlob.checksum
        /\ call[p].ret \in returned[call[p].checksum]
        /\ ~expired[call[p].checksum]
        /\ ~delCalled[call[p].checksum]
        /\ saves[call[p].checksum] = 1

\* C3 (as claimed): while a caller is between its existence check for c and
\* the save of the new row (or the return of the existing one), no other
\* caller checks existence, writes bytes, inserts a row or deletes a row for c.
C3_AtomicCheckThenWrite ==
    [][\A c \in Checksums : \A p \in Callers : \A q \in Callers \ {p} :
           InSection(p, c) => ~Touches(q, c)]_vars

\* C4 (as claimed): delete removes the row only while the deleting caller
\* holds the lock of the blob's checksum and no other caller is inside its
\* existence check for that checksum, and the deleting caller holds no lock
\* once delete has returned or raised.
C4_DeleteUnderLock ==
    [][\A p \in Callers :
           /\ (call[p].pc = "del_row" /\ call'[p].pc = "del_exit") =>
                  /\ lock[call[p].checksum] = p
                  /\ \A q \in Callers \ {p} :
                         ~(call[q].pc \in {"ff_check", "fs_check"}
                           /\ call[q].checksum = call[p].checksum)
           /\ (call[p].op = "delete" /\ call'[p].pc \in {"del_file", "idle"}) =>
                  \A c \in Checksums : lock'[c] # p]_vars

(***************************************************************************)
(* Properties of the chunked reader.                                       *)
(***************************************************************************)
Streaming(r) == r.state = "ok" /\ ~r.prefetched

\* C5: a streaming reader at position 0 of a file put together from B1..Bn
\* at cumulative offsets returns the concatenation of B1..Bn from read()
\* without a size, whatever ids the upload order gave the blobs.
C5_FullReadIsConcat ==
    [][(Streaming(rdr) /\ ~rdr.closed /\ cursor = 0
            /\ last'.op = "read" /\ last'.arg < 0)
        => (last'.err = "none" /\ last'.res = Concat(fileBlobs))]_vars

\* C5 witness: a file of two blobs uploaded in the reverse order of their
\* offsets has been read in full from position 0.
C5_Witness ==
    /\ Streaming(rdr)
    /\ Len(fileBlobs) >= 2
    /\ rdr.indexes[1].blob > rdr.indexes[2].blob
    /\ last.op = "read" /\ last.arg = -1 /\ last.err = "none"
    /\ cursor = Len(last.res)
    /\ last.res = Concat(fileBlobs)

\* C6: in streaming mode a read(1) right after a successful seek(pos) with
\* 0 <= pos <= total size - 1 returns the byte at pos of the concatenation,
\* whatever the reader did before the seek.
C6_SeekThenReadOne ==
    (/\ Streaming(rdr)
     /\ last.op = "read" /\ last.arg = 1
     /\ last.prevSeek >= 0 /\ last.prevSeek <= SumSizes(fileBlobs) - 1)
    => (last.err = "none" /\ last.res = <<Concat(fileBlobs)[last.prevSeek + 1]>>)

\* C6 witness: a seek into the second blob, past its first byte, was
\* followed by a read(1) that returned one byte.
C6_Witness ==
    /\ Streaming(rdr)
    /\ Len(fileBlobs) >= 2
    /\ last.op = "read" /\ last.arg = 1 /\ Len(last.res) = 1
    /\ last.prevSeek > Len(fileBlobs[1])
    /\ last.prevSeek <= SumSizes(fileBlobs) - 1

\* C7 (as claimed): in streaming mode seek(pos) with pos greater than the
\* total size fails with an error and leaves the cursor where it was.
C7_SeekPastEndFails ==
    [][(Streaming(rdr) /\ ~rdr.closed
            /\ last'.op = "seek" /\ last'.arg > SumSizes(fileBlobs))
        => (/\ last'.err # "none"
            /\ rdr'.curidx = rdr.curidx
            /\ rdr'.curfile = rdr.curfile)]_vars

\* C8: in streaming mode seek(pos) with pos < 0 raises and has opened,
\* closed and repositioned no blob stream: the current index entry, the
\* open stream with its position and tell() are what they were.
C8_NegativeSeekFails ==
    [][(Streaming(rdr) /\ last'.op = "seek" /\ last'.arg < 0)
        => (/\ last'.err # "none"
            /\ rdr'.curidx = rdr.curidx
            /\ rdr'.curfile = rdr.curfile
            /\ rdr'.streams = rdr.streams
            /\ rdr'.opened = 0
            /\ rdr'.closes = 0
            /\ Tell(rdr').val = Tell(rdr).val)]_vars

\* C8 witness: seek(-1) has raised on an open reader whose stream is
\* positioned inside the second blob.
C8_Witness ==
    /\ Streaming(rdr) /\ ~rdr.closed
    /\ last.op = "seek" /\ last.arg < 0 /\ last.err = "IOError"
    /\ rdr.curidx = 2
    /\ rdr.curfile.kind = "blob" /\ rdr.curfile.pos > 0

\* C9: on a file with at least one blob whose prefetch fetched every blob,
\* each read of a sequence of read(n) calls (n >= 0, or without a size)
\* returns the same bytes from the prefetch reader as from the streaming
\* reader.
C9_PrefetchEqualsStreaming ==
    (/\ Len(fileBlobs) >= 1
     /\ rdr.state # "new"
     /\ rdr2.fetchFailed = {})
    => (/\ rdr.state = "ok" /\ rdr2.state = "ok"
        /\ last2.op = last.op /\ last2.arg = last.arg
        /\ last2.err = last.err
        /\ last2.res = last.res)

\* C9 witness: both readers have returned the whole of a file of two blobs
\* from one read, after fetches that all succeeded.
C9_Witness ==
    /\ Len(fileBlobs) >= 2
    /\ rdr2.state = "ok" /\ rdr2.prefetched /\ rdr2.fetchFailed = {}
    /\ Streaming(rdr)
    /\ last.op = "read" /\ last2.op = "read"
    /\ last2.res = Concat(fileBlobs)
    /\ last.res = last2.res

\* C10 (as claimed): when a blob fetch fails during prefetch, the
\* construction of the reader fails, so no reader holds a temp file with
\* zero bytes in place of a blob's content.
C10_FailedFetchAborts ==
    (rdr.prefetched /\ rdr.fetchFailed # {}) => rdr.state # "ok"

(***************************************************************************)
(* Properties of File.putfile and File.assemble_from_file_blob_ids.        *)
(***************************************************************************)
\* C11: an assemble_from_file_blob_ids call whose expected checksum differs
\* from the SHA-1 of the bytes it assembled raises AssembleChecksumMismatch;
\* the index rows of the File are those of before the call (none of the
\* rows it created stays committed) and the size and checksum in the
\* File's row are unchanged.  The same holds of the rows and the File's row
\* when the call raises for any other reason.
C11_MismatchLeavesNothing ==
    [][(fcall'.op = "assemble" /\ calls' = calls + 1)
        => /\ (fcall'.err # "IntegrityError" /\ fcall'.checksum # Sha1(fcall'.tf))
                => fcall'.err = "AssembleChecksumMismatch"
           /\ fcall'.err # "none"
                => (index' = index /\ file'.saved = file.saved)]_vars

\* C11 witness: a call that created two index rows and assembled their
\* bytes has raised AssembleChecksumMismatch; the rows are not in the
\* table, the instance has the new size and the File's row has not.
C11_Witness ==
    /\ fcall.op = "assemble"
    /\ fcall.err = "AssembleChecksumMismatch"
    /\ Len(fcall.created) = 2
    /\ \A i \in 1..Len(fcall.created) : fcall.created[i] \notin index
    /\ file.size = Len(fcall.tf)
    /\ file.saved.size # file.size

\* The sizes of the blobs named by an id list, summed in list order.
RECURSIVE ListSize(_)
ListSize(ids) ==
    IF ids = <<>> THEN 0
    ELSE LET found == {r \in rows : r.id = Head(ids)}
         IN  (IF found = {} THEN 0 ELSE (CHOOSE r \in found : TRUE).size)
                 + ListSize(Tail(ids))

\* C12 (as claimed): a successful assemble_from_file_blob_ids(ids, checksum)
\* on ids that all have a blob has created one index row per entry of ids,
\* in list order, row i at the sum of the sizes of the blobs before it; the
\* File's size is the sum of the sizes of the blobs of the list and its
\* checksum the expected one; the temp file is at position 0 and holds the
\* bytes of the blobs in list order.
C12_AssembleFollowsList ==
    (/\ fcall.op = "assemble"
     /\ fcall.err = "none"
     /\ \A i \in 1..Len(fcall.ids) : \E r \in rows : r.id = fcall.ids[i])
    => (/\ Len(fcall.created) = Len(fcall.ids)
        /\ \A i \in 1..Len(fcall.created) :
              fcall.created[i] = [blob |-> fcall.ids[i],
                                  offset |-> ListSize(SubSeq(fcall.ids, 1, i - 1))]
        /\ file.size = ListSize(fcall.ids)
        /\ file.checksum = fcall.checksum
        /\ fcall.tfpos = 0
        /\ fcall.tf = ListBytes(fcall.ids))

(***************************************************************************)
(* Properties of FileBlob.from_files.                                      *)
(***************************************************************************)
\* The sequence has no element twice.
NoRepeat(seq) == \A i, j \in 1..Len(seq) : seq[i] = seq[j] => i = j

\* C13: a from_files call writes to storage once per distinct checksum of
\* its batch that has no row, and not otherwise: it is about to call
\* storage.save only for a checksum that has no row (unless a lease on the
\* checksum's lock ran out), it has written no checksum twice, and when it
\* has gone through its batch every distinct checksum of the batch was
\* either written once or found as an existing row, which was not written.
C13_OneWritePerNewChecksum ==
    \A p \in Callers :
        call[p].op = "from_files" =>
            /\ NoRepeat(call[p].wrote)
            /\ call[p].pc = "fs_upload"
                  => /\ Existing(call[p].checksum) = {} \/ expired[call[p].checksum]
                     /\ \A i \in 1..Len(call[p].wrote) : call[p].wrote[i] # call[p].checksum
            /\ (call[p].pc = "fs_finally" /\ call[p].err = "none")
                  => /\ call[p].seen = {Sha1(call[p].batch[i].bytes) :
                                            i \in 1..Len(call[p].batch)}
                     /\ {call[p].wrote[i] : i \in 1..Len(call[p].wrote)} \subseteq call[p].seen
                     /\ Len(call[p].wrote) + Len(call[p].created) = Cardinality(call[p].seen)

\* C13 witness: a call has gone through a batch of two byte-identical
\* sources without a row and has written one of them.
C13_Witness ==
    \E p \in Callers :
        /\ call[p].pc = "fs_finally" /\ call[p].err = "none"
        /\ Len(call[p].batch) = 2
        /\ call[p].batch[1].bytes = call[p].batch[2].bytes
        /\ Len(call[p].wrote) = 1
        /\ call[p].created = <<>>

\* C14 (as claimed): a from_files call that does not raise hands back a
\* list with one blob reference per input, in input order, each to a blob
\* with the input's checksum, so that inputs with identical bytes get the
\* same blob id.
C14_OneRefPerInput ==
    \A p \in Callers :
        (call[p].pc = "fs_finally" /\ call[p].err = "none")
        => LET result == FromFilesReturn(call[p])
               batch == call[p].batch
           IN  /\ ~result.none
               /\ Len(result.refs) = Len(batch)
               /\ \A i \in 1..Len(batch) :
                     result.refs[i] \in returned[Sha1(batch[i].bytes)]
               /\ \A i, j \in 1..Len(batch) :
                     batch[i].bytes = batch[j].bytes => result.refs[i] = result.refs[j]

\* C15: a caller that is in no call holds no lock: whatever path its
\* from_file or from_files call took to return or raise (existing blob,
\* upload, checksum mismatch, failing storage.save, failing row save, lock
\* timeout), the locks it took are released.
C15_NoLockLeak ==
    \A p \in Callers : call[p].pc = "idle" => \A c \in Checksums : lock[c] # p

\* C15 witness: both calls are over, one of them raised after its
\* storage.save (the stored bytes have no row), and no lock is held.
C15_Witness ==
    /\ calls = Cardinality(Callers)
    /\ \A p \in Callers : call[p].pc = "idle"
    /\ \E f \in store : \A r \in rows : r.path # f.path
    /\ \A c \in Checksums : lock[c] = NoOne

\* C16: no two from_files callers wait for each other: there is no state
\* in which one holds the lock of c1 and waits for the lock of c2 while the
\* other holds the lock of c2 and waits for the lock of c1.
C16_NoCrossWait ==
    \A p, q \in Callers :
        ~(/\ p # q
          /\ call[p].pc = "fs_lock" /\ call[q].pc = "fs_lock"
          /\ call[p].checksum # call[q].checksum
          /\ lock[call[q].checksum] = p
          /\ lock[call[p].checksum] = q)

\* C16 witness: two from_files calls on the same two contents, neither
\* stored before, in opposite orders; one has stored its first content and
\* waits for the lock of its second, which the other holds.
C16_Witness ==
    \E p, q \in Callers :
        /\ p # q
        /\ call[p].op = "from_files" /\ call[q].op = "from_files"
        /\ Len(call[p].batch) = 2
        /\ call[p].batch[1].bytes # call[p].batch[2].bytes
        /\ call[q].batch = <<call[p].batch[2], call[p].batch[1]>>
        /\ saves[Sha1(call[p].batch[1].bytes)] = 1
        /\ Len(call[p].wrote) = 1
        /\ call[p].pc = "fs_lock"
        /\ lock[call[p].checksum] = q

\* blob.size of the blob an index row references
SizeOfBlob(id) == (CHOOSE r \in rows : r.id = id).size

\* C17: a putfile(fileobj, blob_size) of L bytes on a File without index
\* rows creates ceil(L / blob_size) rows at offsets 0, blob_size, ...; the
\* blobs have size blob_size but for the last, which has L mod blob_size,
\* or blob_size when that is 0; the File's size is L and its checksum the
\* SHA-1 of the input; for an empty input there is no row and the size is 0.
C17_PutfileChunks ==
    (/\ fcall.op = "putfile"
     /\ fcall.err = "none"
     /\ index = {fcall.created[i] : i \in 1..Len(fcall.created)})
    => LET L == Len(fcall.data)
           bs == fcall.blobSize
           n == (L + bs - 1) \div bs
       IN  /\ Len(fcall.created) = n
           /\ Cardinality(index) = n
           /\ \A i \in 1..n :
                 /\ fcall.created[i].offset = (i - 1) * bs
                 /\ SizeOfBlob(fcall.created[i].blob) =
                        IF i < n \/ L % bs = 0 THEN bs ELSE L % bs
           /\ file.size = L
           /\ file.checksum = Sha1(fcall.data)
           /\ L = 0 => (index = {} /\ file.size = 0)

\* C17 witness: three bytes were put with blob_size 2 on a File without
\* rows: two rows, the second blob of one byte.
C17_Witness ==
    /\ fcall.op = "putfile" /\ fcall.err = "none"
    /\ Len(fcall.data) = 3 /\ fcall.blobSize = 2
    /\ Cardinality(index) = 2
    /\ Len(fcall.created) = 2
    /\ fcall.created[2].offset = 2
    /\ SizeOfBlob(fcall.created[2].blob) = 1

RECURSIVE SumOfBlobSizes(_)
SumOfBlobSizes(idx) ==
    IF idx = {} THEN 0
    ELSE LET row == CHOOSE x \in idx : TRUE
         IN  SizeOfBlob(row.blob) + SumOfBlobSizes(idx \ {row})

\* C18 (as claimed): after any sequence of putfile and
\* assemble_from_file_blob_ids calls on a File that all returned, the
\* File's index rows do not overlap, each row starts at 0 or where another
\* row ends, and the File's size is the sum of the sizes of the blobs its
\* rows reference.
C18_RowsContiguous ==
    (fcall.op # "none" /\ ~fcall.failed)
    => /\ \A x, y \in index :
             x # y => \/ x.offset + SizeOfBlob(x.blob) <= y.offset
                      \/ y.offset + SizeOfBlob(y.blob) <= x.offset
       /\ \A x \in index :
             x.offset = 0 \/ \E y \in index : y.offset + SizeOfBlob(y.blob) = x.offset
       /\ file.size = SumOfBlobSizes(index)

(***************************************************************************)
(* Properties of close and detach_tempfile.                                *)
(***************************************************************************)
\* C19: in either mode close() leaves the reader closed with no stream
\* open (an open blob stream is closed by it), and a close() on a closed
\* reader changes nothing; every read, seek and tell on a closed reader
\* raises, opens no blob stream and changes nothing.
C19_ClosedReaderRaises ==
    [][/\ (rdr.state = "ok" /\ last'.op = "close")
            => /\ last'.err = "none"
               /\ rdr'.closed
               /\ rdr'.curfile = NoFile
               /\ rdr'.streams = 0
               /\ rdr.curfile.kind = "blob" => rdr'.closes = 1
               /\ rdr.closed => rdr' = Begin(rdr)
       /\ (rdr.state = "ok" /\ rdr.closed /\ last'.op \in {"read", "seek", "tell"})
            => /\ last'.err # "none"
               /\ rdr' = Begin(rdr)]_vars

\* C19 witness: a read on a streaming reader of two blobs that was closed
\* has raised ValueError.
C19_Witness ==
    /\ rdr.state = "ok" /\ ~rdr.prefetched
    /\ Len(rdr.indexes) = 2
    /\ rdr.closed
    /\ last.op = "read" /\ last.err = "ValueError"
    /\ rdr.streams = 0

\* C20: detach_tempfile() on a reader that was not made in prefetch mode
\* raises and changes nothing: the reader is open or closed as before, with
\* the same index entry, the same open stream at the same position and the
\* same tell().
C20_DetachNeedsPrefetch ==
    [][(Streaming(rdr) /\ last'.op = "detach")
        => (/\ last'.err # "none"
            /\ rdr' = Begin(rdr)
            /\ rdr'.closed = rdr.closed
            /\ rdr'.curidx = rdr.curidx
            /\ rdr'.curfile = rdr.curfile
            /\ Tell(rdr').val = Tell(rdr).val
            /\ Tell(rdr').err = Tell(rdr).err)]_vars

\* C20 witness: detach_tempfile has raised TypeError on an open streaming
\* reader whose stream is inside the second blob.
C20_Witness ==
    /\ Streaming(rdr) /\ ~rdr.closed
    /\ last.op = "detach" /\ last.err = "TypeError"
    /\ rdr.curidx = 2
    /\ rdr.curfile.kind = "blob" /\ rdr.curfile.pos > 0

(***************************************************************************)
(* Properties of batch uploads.                                            *)
(***************************************************************************)
\* The item's bytes do not hash to the reference checksum it came with.
Mismatch(item) == item.ref # NoRef /\ Sha1(item.bytes) # item.ref

\* The checksums of the first n items of a batch.
ChecksumsOfFirst(batch, n) == {Sha1(batch[i].bytes) : i \in 1..n}

\* C21: a from_files call that reaches an item whose bytes do not hash to its
\* reference checksum raises IOError at that item: it holds no lock, has
\* nothing waiting to be saved, and has looked up, written and recorded only
\* the checksums of the items before it; when it is the only call so far,
\* the rows, the stored bytes and the ownership rows beyond the initial blob
\* all belong to those earlier items.  A call that ends without an error had
\* no mismatching item.
C21_MismatchRaisesEarly ==
    \A p \in Callers :
        call[p].pc = "fs_finally" =>
            LET done == Len(call[p].batch) - Len(call[p].files)
                before == ChecksumsOfFirst(call[p].batch, done)
            IN  /\ call[p].err = "none" =>
                       \A i \in 1..Len(call[p].batch) : ~Mismatch(call[p].batch[i])
                /\ call[p].err = "IOError" =>
                       /\ call[p].files # <<>>
                       /\ Mismatch(Head(call[p].files))
                       /\ \A c \in Checksums : lock[c] # p
                       /\ call[p].locks = {}
                       /\ call[p].pending = <<>>
                       /\ call[p].seen = before
                       /\ \A i \in 1..Len(call[p].wrote) : call[p].wrote[i] \in before
                       /\ calls = 1 =>
                              /\ \A r \in rows \ {StoredBlob} : r.checksum \in before
                              /\ \A f \in store :
                                     f.path = StoredBlob.path \/ Sha1(f.bytes) \in before
                              /\ \A o \in owners :
                                     \E r \in rows : r.id = o.blob /\ r.checksum \in before

\* C21 witness: the first of two items failed its reference checksum while
\* the second was still to come, and nothing was written or owned.
C21_Witness ==
    \E p \in Callers :
        /\ call[p].pc = "fs_finally"
        /\ call[p].err = "IOError"
        /\ Len(call[p].files) = 2
        /\ ~Mismatch(call[p].files[2])
        /\ Sha1(call[p].files[2].bytes) \notin {r.checksum : r \in rows}
        /\ calls = 1
        /\ owners = {}

(***************************************************************************)
(* Properties of deletion.                                                 *)
(***************************************************************************)
\* C22: no step of FileBlob.delete removes bytes from storage, and only its
\* last step touches the task queue: by then the row is gone, and for an
\* instance with a path the task for that path and the blob's checksum is
\* queued with a countdown of 60 seconds and the instance's path cleared,
\* while for an instance without a path the queue stays as it was.
C22_DeleteDefersBytes ==
    [][\A p \in Callers :
          (call[p].op = "delete" /\ call'[p] # call[p]) =>
              /\ store' = store
              /\ IF call[p].pc = "del_file"
                 THEN /\ ~(\E r \in rows : r.id = call[p].blob.id)
                      /\ call'[p].blob.path = NoPath
                      /\ IF call[p].blob.path # NoPath
                         THEN tasks' = tasks \cup {[path |-> call[p].blob.path,
                                                    checksum |-> call[p].blob.checksum,
                                                    countdown |-> 60]}
                         ELSE tasks' = tasks
                 ELSE tasks' = tasks]_vars

\* C22 witness: a blob with a path has been deleted: its row is gone, its
\* task is queued, its bytes are still in storage and the instance has no
\* path any more.
C22_Witness ==
    \E p \in Callers :
        /\ call[p].pc = "idle"
        /\ call[p].blob = [StoredBlob EXCEPT !.path = NoPath]
        /\ ~(\E r \in rows : r.id = StoredBlob.id)
        /\ [path |-> StoredBlob.path, checksum |-> StoredBlob.checksum,
            countdown |-> 60] \in tasks
        /\ \E f \in store : f.path = StoredBlob.path

\* C23: a reader never opens a storage path whose deletion is queued or has
\* been carried out.
C23_NoOpenOfDoomedPath ==
    [][\A p \in Callers :
          (call[p].pc = "gf_held" /\ call'[p].pc = "gf_done"
           /\ call[p].blob.path # NoPath) =>
              /\ call[p].blob.path \notin {t.path : t \in tasks}
              /\ \E f \in store : f.path = call[p].blob.path]_vars

\* The ownership rows of the blob with checksum c for an organization.
OwnersOf(c, org) ==
    {o \in owners : o.organization = org /\ \E r \in rows : r.id = o.blob /\ r.checksum = c}

\* C24: when a from_files call for an organization has gone through its
\* batch without an error, every checksum of the batch has a row, and that
\* row has exactly one ownership row for the organization, whether the blob
\* was created by this call, found by it, or owned before by another call.
C24_OneOwnerPerBlob ==
    \A p \in Callers :
        (call[p].pc = "fs_finally" /\ call[p].err = "none" /\ call[p].org # NoOrg) =>
            \A c \in ChecksumsOfFirst(call[p].batch, Len(call[p].batch)) :
                /\ \E r \in rows : r.checksum = c
                /\ Cardinality(OwnersOf(c, call[p].org)) = 1

\* C24 witness: two calls for the same organization have both gone through
\* a batch with the new content and the stored one, one creating the new
\* blob and the other finding it, and each blob has its one ownership row.
C24_Witness ==
    /\ \A p \in Callers :
          /\ call[p].pc = "fs_finally"
          /\ call[p].err = "none"
          /\ call[p].org = "org1"
          /\ ChecksumsOfFirst(call[p].batch, Len(call[p].batch)) = Checksums
    /\ \E p \in Callers : call[p].wrote # <<>>
    /\ \E p \in Callers : call[p].wrote = <<>>
    /\ \A c \in Checksums : Cardinality(OwnersOf(c, "org1")) = 1

\* C25: a caller that waits for the lock of a checksum and cannot get it is
\* kept out only by a caller working on that same checksum: a lock held for
\* other content never blocks it.
C25_BlockedOnlyBySameContent ==
    \A p \in Callers :
        (call[p].pc \in {"ff_lock", "fs_lock"} /\ ~LockFree(LockKey(call[p].checksum))) =>
            \E q \in Callers \ {p} :
                /\ lock[call[p].checksum] = q
                /\ call[q].checksum = call[p].checksum

\* C25 witness: two callers are inside their check-then-write sections at
\* the same time, each holding the lock of its own content.
C25_Witness ==
    \E p, q \in Callers :
        /\ call[p].checksum # call[q].checksum
        /\ call[p].pc \in {"ff_upload", "ff_save"}
        /\ call[q].pc \in {"fs_upload", "ff_upload", "ff_save"}
        /\ lock[call[p].checksum] = p
        /\ lock[call[q].checksum] = q

\* The slots of the semaphore a from_files call has taken and not given back.
SlotsTaken(p) == MULTI_BLOB_UPLOAD_CONCURRENCY - call[p].sem

C27_ReadReturnsSlice ==
    LET total == SumSizes(fileBlobs)
        p == cursor - Len(last.res)
    IN  (/\ Streaming(rdr) /\ ~rdr.closed
         /\ last.op = "read" /\ last.arg >= 0
         /\ p >= 0 /\ p <= total)
        => (/\ last.err = "none"
            /\ Len(last.res) = Min(last.arg, total - p)
            /\ last.res = SubSeq(Concat(fileBlobs), p + 1, p + Min(last.arg, total - p)))

\* C27 witness: a read(3) that started in the first blob has returned three
\* bytes, the last of them from the second blob.
C27_Witness ==
    /\ Streaming(rdr) /\ ~rdr.closed
    /\ Len(fileBlobs) = 2
    /\ last.op = "read" /\ last.arg = 3 /\ last.err = "none"
    /\ Len(last.res) = 3
    /\ cursor - 3 < Len(fileBlobs[1])
    /\ cursor > Len(fileBlobs[1])

\* C28 (as claimed): in streaming mode tell() on an open reader returns the
\* logical position, the position of the last successful seek plus the
\* bytes read since; it lies between 0 and the total size, and is the total
\* size once the last blob is drained.
C28_TellIsPosition ==
    (Streaming(rdr) /\ ~rdr.closed /\ last.op = "tell")
    => (/\ last.err = "none"
        /\ last.val = cursor
        /\ last.val >= 0
        /\ last.val <= SumSizes(fileBlobs)
        /\ rdr.curfile = NoFile => last.val = SumSizes(fileBlobs))

(***************************************************************************)
(* Properties of File.save_to.                                             *)
(***************************************************************************)
\* C29 (as claimed): after save_to the destination holds the complete
\* content of the file or what it held before, and a call that raised has
\* left no temp file in the destination directory.
C29_SaveToAtomic ==
    [][(fcall.op = "none" /\ fcall'.op = "save_to") =>
          /\ dir'.dest \in {dir.dest, Concat(fileBlobs)}
          /\ fcall'.err = "none" => dir'.dest = Concat(fileBlobs)
          /\ fcall'.err # "none" => dir'.temps = dir.temps]_vars

\* The stage a from_files call is in with the blob it is creating: the lock
\* is on the call's list from the absence check on; a written blob that
\* waits for its row has its bytes in storage, its lock on the list and a
\* slot; the blob whose ownership is being attached has its row; the blob
\* whose lock is being released has its row and its ownership row.
InOrder(p) ==
    /\ call[p].pc = "fs_upload" => call[p].checksum \in call[p].locks
    /\ \A i \in 1..Len(call[p].pending) :
          LET blob == call[p].pending[i]
          IN  /\ blob.checksum \in call[p].locks
              /\ [path |-> blob.path, bytes |-> call[p].bytes] \in store
              /\ SlotsTaken(p) >= 1
    /\ call[p].pc \in {"fl_own", "fl_exit"} =>
          /\ call[p].blob \in rows
          /\ call[p].blob.checksum \in call[p].locks
          /\ SlotsTaken(p) >= 1
    /\ (call[p].pc = "fl_exit" /\ call[p].org # NoOrg) =>
          [blob |-> call[p].blob.id, organization |-> call[p].org] \in owners

\* C30: a from_files call creates a blob in this order: lock taken and
\* absence checked, bytes written, row saved and ownership attached, lock
\* released and slot freed.  A step of the call that lets go of the lock of
\* a checksum it has written finds a row with that checksum saved, and a
\* slot is freed only in the step that lets go of the lock of a blob whose
\* row this call has saved.
C30_CreateInOrder ==
    [][\A p \in Callers :
          /\ call'[p].op = "from_files" => InOrder(p)'
          /\ (call[p].op = "from_files" /\ call'[p] # call[p]) =>
                /\ \A c \in Checksums :
                      (/\ \E i \in 1..Len(call[p].wrote) : call[p].wrote[i] = c
                       /\ \/ c \in call[p].locks /\ c \notin call'[p].locks
                          \/ lock[c] = p /\ lock'[c] # p)
                      => \E r \in rows : r.checksum = c
                /\ (call'[p].op = "from_files" /\ call'[p].sem > call[p].sem) =>
                      /\ call[p].pc = "fl_exit"
                      /\ call[p].blob \in rows
                      /\ call[p].blob.checksum \in call[p].locks
                      /\ call[p].blob.checksum \notin call'[p].locks
                      /\ lock'[call[p].blob.checksum] # p]_vars

\* C30 witness: a call has written a new blob under its lock, saved its row
\* and attached the ownership row, and still holds the lock and the slot.
C30_Witness ==
    \E p \in Callers :
        /\ call[p].pc = "fl_exit"
        /\ call[p].wrote = <<call[p].blob.checksum>>
        /\ call[p].blob \in rows
        /\ [blob |-> call[p].blob.id, organization |-> "org1"] \in owners
        /\ lock[call[p].blob.checksum] = p
        /\ SlotsTaken(p) = 1

(***************************************************************************)
(* Properties of the worker pool of from_files.                            *)
(***************************************************************************)
\* C31 (as claimed): in from_files the bytes are written by a worker of the
\* pool and not by the calling thread: no step of the calling thread
\* changes what is in storage, so that the caller can go on to the next
\* item while writes are in progress.
C31_WritesOffCallingThread ==
    [][\A p \in Callers :
          (call[p].op = "from_files" /\ call'[p] # call[p]) => store' = store]_vars

\* C32: every from_files call, also one on more new contents than the
\* semaphore has slots, comes to its end: it returns or raises.
C32_CallsEnd ==
    \A p \in Callers : (call[p].op = "from_files") ~> (call[p].pc = "idle")

\* C32 witness: a call has written more new contents than there are slots
\* and has gone through its batch.
C32_Witness ==
    \E p \in Callers :
        /\ call[p].pc = "fs_finally"
        /\ call[p].err = "none"
        /\ Len(call[p].wrote) > MULTI_BLOB_UPLOAD_CONCURRENCY
        /\ call[p].sem = MULTI_BLOB_UPLOAD_CONCURRENCY

\* C33: a prefetch-mode reader is handed to its caller only after every
\* fetch worker has finished, with the temp file as its backing file, and
\* from then on no worker writes: the buffer holds what the workers wrote
\* and stays as it is under read, seek, tell, close and detach_tempfile.
C33_JoinBarrier ==
    [][(rdr'.state \in {"ok", "failed"}) =>
          /\ AllFinished'
          /\ rdr'.tmp = Prefetch(rdr', [i \in DOMAIN workers' |-> workers'[i].got]).tmp
          /\ (rdr.state = "prefetching" /\ rdr'.state = "ok") => rdr'.curfile.kind = "temp"
          /\ (rdr.state = "ok") => (rdr'.tmp = rdr.tmp /\ workers' = workers)]_vars

\* C33 witness: a reader over two entries is read after a prefetch in which
\* one worker wrote all its bytes and the other failed part-way.
C33_Witness ==
    /\ rdr.state = "ok"
    /\ last.op = "read" /\ last.err = "none" /\ Len(last.res) > 0
    /\ Len(rdr.indexes) = 2
    /\ \E i, j \in DOMAIN workers :
          /\ workers[i].st = "done" /\ workers[i].got > 0
          /\ workers[j].st = "failed"

\* C34: in streaming mode a reader has at most one blob stream open after
\* every seek, read or close that returned: the open stream is the one of
\* the current index entry, every other stream a call opened it has closed
\* again, moving to another entry closes the stream that was open, a seek
\* to a position inside the open entry opens and closes nothing, and no
\* stream is open after close(), after a read to the end, or when the
\* index entries are exhausted.
C34_OneOpenStream ==
    [][(/\ rdr'.state = "ok" /\ ~rdr'.prefetched
        /\ last'.op \in {"open", "seek", "read", "close"} /\ last'.err = "none")
       => /\ rdr'.streams = (IF rdr'.curfile.kind = "blob" THEN 1 ELSE 0)
          /\ rdr'.streams = rdr.streams + rdr'.opened - rdr'.closes
          /\ (rdr'.curidx # rdr.curidx /\ rdr.streams = 1) => rdr'.closes >= 1
          /\ (/\ last'.op = "seek" /\ rdr.curidx # 0
              /\ rdr.indexes[rdr.curidx].offset <= last'.arg
              /\ last'.arg < rdr.indexes[rdr.curidx].offset + rdr.indexes[rdr.curidx].size)
                => (rdr'.opened = 0 /\ rdr'.closes = 0 /\ rdr'.curidx = rdr.curidx)
          /\ (last'.op = "close" \/ (last'.op = "read" /\ last'.arg < 0) \/ rdr'.curidx = 0)
                => rdr'.streams = 0]_vars

\* C34 witness: a seek has moved a streaming reader from its first entry to
\* its second: it closed the one stream and opened the other.
C34_Witness ==
    /\ rdr.state = "ok" /\ ~rdr.prefetched
    /\ Len(rdr.indexes) = 2
    /\ last.op = "seek" /\ last.err = "none"
    /\ rdr.curidx = 2
    /\ rdr.opened = 1 /\ rdr.closes = 1 /\ rdr.streams = 1

\* C35: detach_tempfile() on a prefetch-mode reader that holds its temp
\* file returns that file, open, with the prefetched bytes and at position
\* 0, and leaves the reader closed without a file; from then on close()
\* leaves the returned file open, and read, seek and tell on the reader
\* raise.
C35_DetachHandsOver ==
    [][/\ (/\ rdr.state = "ok" /\ rdr.prefetched /\ rdr.curfile.kind = "temp"
           /\ last'.op = "detach")
            => /\ last'.err = "none"
               /\ last'.res = rdr.tmp
               /\ last'.val = 0
               /\ rdr'.tmpOpen
               /\ rdr'.closed
               /\ rdr'.curfile = NoFile
       /\ (rdr.state = "ok" /\ rdr.prefetched /\ rdr.closed /\ rdr.tmpOpen)
            => /\ rdr'.tmpOpen
               /\ rdr'.closed
               /\ last'.op = "close" => last'.err = "none"
               /\ last'.op \in {"read", "seek", "tell"} => last'.err = "ValueError"]_vars

\* C35 witness: the reader of a two-blob file was read from, detached and
\* then closed: the file that was handed over is still open.
C35_Witness ==
    /\ rdr.state = "ok" /\ rdr.prefetched
    /\ Len(rdr.indexes) = 2
    /\ rdr.closed /\ rdr.tmpOpen
    /\ last.op = "close" /\ last.err = "none"

\* C36 (as claimed): a file without index rows can be opened in both
\* modes: the constructor of the reader returns, and on the open reader
\* read() returns no bytes and tell(), with no seek away from 0, returns 0.
C36_EmptyFileOpens ==
    (index = {} /\ rdr.state # "new")
        => /\ rdr.state = "ok"
           /\ (~rdr.closed /\ last.op = "read")
                => (last.err = "none" /\ last.res = <<>>)
           /\ (~rdr.closed /\ last.op = "tell" /\ cursor = 0)
                => (last.err = "none" /\ last.val = 0)

\* C37 (as claimed): for every list of ids of existing blobs, with repeated
\* ids or without, and the expected checksum being the SHA-1 of the blobs'
\* bytes put together in list order, assemble_from_file_blob_ids succeeds
\* and creates one index row per list element.
C37_AssembleTakesRepeats ==
    (/\ fcall.op = "assemble"
     /\ \A i \in 1..Len(fcall.ids) : \E r \in rows : r.id = fcall.ids[i]
     /\ fcall.checksum = Sha1(ListBytes(fcall.ids)))
        => /\ fcall.err = "none"
           /\ Len(fcall.created) = Len(fcall.ids)

\* C38: under any interleaving of from_file, from_files, delete and the
\* deferred deletion task, every FileBlob row with a path has its bytes in
\* storage at that path: a row is saved after its bytes were written, and
\* the task removes the bytes of paths that no row has any more.
C38_RowsHaveBytes ==
    \A r \in rows : r.path # NoPath => \E f \in store : f.path = r.path

\* C38 witness: the deferred task has removed the bytes of a deleted blob
\* while a row of the same content, written anew, is in the table.
C38_Witness ==
    \E c \in Checksums :
        /\ delCalled[c]
        /\ tasks = {}
        /\ \E r \in rows : r.checksum = c /\ r.id > OtherBlob.id
        /\ \E q \in 1..OtherBlob.path : \A f \in store : f.path # q

\* C39 (as claimed): after any sequence of from_file, delete and
\* deletefile(commit=True) calls, the blob a from_file call returns has a
\* path, and the bytes at that path are in storage for getfile() to open.
C39_ReturnedBlobReadable ==
    \A p \in Callers :
        (call[p].op = "from_file" /\ call[p].pc = "ff_exit" /\ call[p].err = "none")
            => /\ call[p].blob.path # NoPath
               /\ \E f \in store : f.path = call[p].blob.path

\* C40 (as claimed): when delete is only started on blobs that no index
\* row references, the blob that from_file handed to putfile is still in
\* the table when putfile creates the index row for it: it cannot be
\* deleted between the release of the lock and the creation of the row.
C40_BlobKeptForIndex ==
    \A p \in Callers :
        call[p].pc = "pf_index" => \E r \in rows : r.id = call[p].blob.id

=============================================================================
